---- MODULE Spec2Model ----
(***************************************************************************)
(* Document flow composer and anchor derivation of                         *)
(* docs/cryptography/permafrost-whitepaper-build.py.                       *)
(*                                                                         *)
(* A Python str is modelled as a sequence of code points, each code point  *)
(* written as a one-character TLA+ string ("U+2264" stands for the single  *)
(* code point of that number).  A flowable is a record; its id field is    *)
(* the identity of the Python object (0 for the KeepTogether wrapper).     *)
(* The payload of a content flowable (prose, table rows, code text) is     *)
(* static data that no operation of the composer reads; it is left out of  *)
(* the record.                                                             *)
(***************************************************************************)
EXTENDS Integers, Sequences, FiniteSets, TLC

VARIABLES story, _pending_heading, calls, nextId, pc, built,
          text, num, title, bodyAnchor, tocAnchor

vars == <<story, _pending_heading, calls, nextId, pc, built,
          text, num, title, bodyAnchor, tocAnchor>>

composerVars == <<story, _pending_heading, calls, nextId, pc, built>>
anchorVars == <<text, num, title, bodyAnchor, tocAnchor>>

\* ------------------------------------------------------------------------
\* Bounds of the model
\* ------------------------------------------------------------------------
MaxCalls == 3
MaxLen == 3

\* ------------------------------------------------------------------------
\* Characters and str methods
\* ------------------------------------------------------------------------
Digits == {"0", "1", "2", "3", "4", "5", "6", "7", "8", "9"}

UpperSeq == <<"A", "B", "C", "D", "E", "F", "G", "H", "I", "J", "K", "L", "M", "N", "O", "P", "Q", "R", "S", "T", "U", "V", "W", "X", "Y", "Z">>

LowerSeq == <<"a", "b", "c", "d", "e", "f", "g", "h", "i", "j", "k", "l", "m", "n", "o", "p", "q", "r", "s", "t", "u", "v", "w", "x", "y", "z">>

Upper == {UpperSeq[k] : k \in 1..Len(UpperSeq)}

Lower == {LowerSeq[k] : k \in 1..Len(LowerSeq)}

Whitespace == {" ", "\t", "\n"}

\* str.lower() on one code point
LowerChar(c) ==
    IF c \in Upper
    THEN LowerSeq[CHOOSE k \in 1..Len(UpperSeq) : UpperSeq[k] = c]
    ELSE c

\* str.lower()
StrLower(s) == [k \in 1..Len(s) |-> LowerChar(s[k])]

\* number of leading code points of s, from index i on, that are in class
RECURSIVE Span(_, _, _)
Span(s, i, class) ==
    IF i <= Len(s) /\ s[i] \in class THEN 1 + Span(s, i + 1, class) ELSE 0

\* number of trailing code points of s that are in class
RECURSIVE SpanBack(_, _)
SpanBack(s, class) ==
    IF Len(s) > 0 /\ s[Len(s)] \in class
    THEN 1 + SpanBack(SubSeq(s, 1, Len(s) - 1), class)
    ELSE 0

\* str.strip()
Strip(s) ==
    LET a == Span(s, 1, Whitespace)
    IN  IF a = Len(s) THEN <<>>
        ELSE SubSeq(s, a + 1, Len(s) - SpanBack(s, Whitespace))

\* str.rstrip(chars)
RStrip(s, class) == SubSeq(s, 1, Len(s) - SpanBack(s, class))

\* str.replace(old, new) for a one-character old; new is a str
RECURSIVE Replace(_, _, _)
Replace(s, old, new) ==
    IF s = <<>> THEN <<>>
    ELSE (IF Head(s) = old THEN new ELSE <<Head(s)>>) \o Replace(Tail(s), old, new)

\* re.sub(r'[^...]', '', s): keep the code points of s that are in class
RECURSIVE Keep(_, _)
Keep(s, class) ==
    IF s = <<>> THEN <<>>
    ELSE (IF Head(s) \in class THEN <<Head(s)>> ELSE <<>>) \o Keep(Tail(s), class)

\* str.split(): the maximal runs of non-whitespace code points, in order
RECURSIVE Split(_)
Split(s) ==
    LET a == Span(s, 1, Whitespace)
        rest == SubSeq(s, a + 1, Len(s))
        n == IF rest = <<>> THEN 0
             ELSE CHOOSE k \in 1..Len(rest) :
                    /\ \A j \in 1..k : rest[j] \notin Whitespace
                    /\ (k = Len(rest) \/ rest[k + 1] \in Whitespace)
    IN  IF rest = <<>> THEN <<>>
        ELSE <<SubSeq(rest, 1, n)>> \o Split(SubSeq(rest, n + 1, Len(rest)))

\* '_'.join(words)
RECURSIVE Join(_)
Join(words) ==
    IF words = <<>> THEN <<>>
    ELSE IF Len(words) = 1 THEN words[1]
    ELSE words[1] \o <<"_">> \o Join(Tail(words))

\* words[:n]
Take(words, n) == SubSeq(words, 1, IF Len(words) < n THEN Len(words) ELSE n)

\* s.startswith(p)
StartsWith(s, p) == Len(p) <= Len(s) /\ SubSeq(s, 1, Len(p)) = p

\* ------------------------------------------------------------------------
\* _make_anchor
\* ------------------------------------------------------------------------
\* re.sub(r'<[^>]+>', '', text), scanning from index i: a tag is "<", one
\* or more code points other than ">", and the first ">" after them.
RECURSIVE StripTagsFrom(_, _)
StripTagsFrom(s, i) ==
    IF i > Len(s) THEN <<>>
    ELSE LET closers == {j \in (i + 1)..Len(s) : s[j] = ">"}
             j == IF closers = {} THEN 0
                  ELSE CHOOSE c \in closers : \A d \in closers : c <= d
         IN  IF s[i] = "<" /\ j >= i + 2
             THEN StripTagsFrom(s, j + 1)
             ELSE <<s[i]>> \o StripTagsFrom(s, i + 1)

StripTags(s) == StripTagsFrom(s, 1)

\* variant: the pattern is  ^\d+\.\s*  and stops after the first dot
NumberMatchLen_OneLevel(s) ==
    LET d == Span(s, 1, Digits)
    IN  IF d >= 1 /\ d + 1 <= Len(s) /\ s[d + 1] = "."
        THEN d + 1 + Span(s, d + 2, Whitespace)
        ELSE 0

\* length of the match of  ^\d+\.[\d.]*\s*  on s, 0 when there is none
NumberMatchLen(s) ==
    LET d == Span(s, 1, Digits)
    IN  IF d >= 1 /\ d + 1 <= Len(s) /\ s[d + 1] = "."
        THEN LET e == Span(s, d + 2, Digits \cup {"."})
             IN  d + 1 + e + Span(s, d + 2 + e, Whitespace)
        ELSE 0

AppendixWord == <<"A", "p", "p", "e", "n", "d", "i", "x">>

\* length of the match of  ^Appendix\s+[A-Z][\.:]\s*  on s, 0 when none
AppendixMatchLen(s) ==
    LET a == Len(AppendixWord)
        w == Span(s, a + 1, Whitespace)
        p == a + w + 1
    IN  IF /\ StartsWith(s, AppendixWord)
           /\ w >= 1
           /\ p + 1 <= Len(s)
           /\ s[p] \in Upper
           /\ s[p + 1] \in {".", ":"}
        THEN p + 1 + Span(s, p + 2, Whitespace)
        ELSE 0

\* length of m.group(0) of the re.match of line 75, 0 when m is None
MatchLen(s) ==
    IF NumberMatchLen(s) > 0 THEN NumberMatchLen(s) ELSE AppendixMatchLen(s)

SecPrefix == <<"s", "e", "c", "_">>

\* variant: trailing dots of the token are not trimmed
NormalizeToken_NoRstrip(g) ==
    Replace(Replace(Replace(Strip(g), ".", <<"_">>), " ", <<"_">>), ":", <<>>)

\* variant: the colon of the token is kept
NormalizeToken_KeepColon(g) ==
    Replace(Replace(RStrip(Strip(g), {"."}), ".", <<"_">>), " ", <<"_">>)

\* m.group(0).strip().rstrip('.').replace('.', '_').replace(' ', '_').replace(':', '')
NormalizeToken(g) ==
    Replace(Replace(Replace(RStrip(Strip(g), {"."}), ".", <<"_">>), " ", <<"_">>), ":", <<>>)

\* variant: only the first word is used
FallbackWords_OneWord(clean) ==
    LET words == Take(Split(Keep(clean, Lower \cup Upper \cup Digits \cup Whitespace)), 1)
    IN  Join([k \in 1..Len(words) |-> StrLower(words[k])])

\* variant: the words are not lower-cased
FallbackWords_NoLower(clean) ==
    Join(Take(Split(Keep(clean, Lower \cup Upper \cup Digits \cup Whitespace)), 4))

\* the fallback of lines 80-81
FallbackWords(clean) ==
    LET words == Take(Split(Keep(clean, Lower \cup Upper \cup Digits \cup Whitespace)), 4)
    IN  Join([k \in 1..Len(words) |-> StrLower(words[k])])

\* variant: the numbering pattern is matched on the text with its tags
_make_anchor_MatchRaw(t) ==
    LET clean == StripTags(t)
        m == MatchLen(t)
    IN  IF m > 0
        THEN SecPrefix \o NormalizeToken(SubSeq(t, 1, m))
        ELSE SecPrefix \o FallbackWords(clean)

\* variant: the anchor is marked when the stream already holds entries
_make_anchor_Counting(t) ==
    LET clean == StripTags(t)
        m == MatchLen(clean)
        mark == IF story # <<>> THEN <<"_", "2">> ELSE <<>>
    IN  IF m > 0
        THEN SecPrefix \o NormalizeToken(SubSeq(clean, 1, m)) \o mark
        ELSE SecPrefix \o FallbackWords(clean) \o mark

\* variant: the fallback returns the joined words without the prefix
_make_anchor_BareFallback(t) ==
    LET clean == StripTags(t)
        m == MatchLen(clean)
    IN  IF m > 0
        THEN SecPrefix \o NormalizeToken(SubSeq(clean, 1, m))
        ELSE FallbackWords(clean)

_make_anchor(t) ==
    LET clean == StripTags(t)
        m == MatchLen(clean)
    IN  IF m > 0
        THEN SecPrefix \o NormalizeToken(SubSeq(clean, 1, m))
        ELSE SecPrefix \o FallbackWords(clean)

\* ------------------------------------------------------------------------
\* Flowables of the generator module, as the script constructs them
\* ------------------------------------------------------------------------
Flowable(kind, id, txt, style, h, items) ==
    [kind |-> kind, id |-> id, text |-> txt, style |-> style, h |-> h, items |-> items]

Paragraph(id, txt, style) == Flowable("Paragraph", id, txt, style, 0, <<>>)

AccentBar(id) == Flowable("AccentBar", id, <<>>, "", 1, <<>>)

Spacer(id, h) == Flowable("Spacer", id, <<>>, "", h, <<>>)

PageBreak(id) == Flowable("PageBreak", id, <<>>, "", 0, <<>>)

CalloutBox(id, severity) == Flowable("CalloutBox", id, <<>>, severity, 0, <<>>)

CodeBlock(id) == Flowable("CodeBlock", id, <<>>, "", 0, <<>>)

CardTable(id) == Flowable("CardTable", id, <<>>, "", 0, <<>>)

StepIndicator(id) == Flowable("StepIndicator", id, <<>>, "", 0, <<>>)

KeepTogether(items) == Flowable("KeepTogether", 0, <<>>, "", 0, items)

\* f'<a name="{anchor}"/>{text}'
AnchoredText(anchor, t) == <<"<", "a", " ", "n", "a", "m", "e", "=", "\"">> \o anchor \o <<"\"", "/", ">">> \o t

\* ------------------------------------------------------------------------
\* The buffered heading system.  A composer state is the pair of the
\* module-level lists story and _pending_heading.
\* ------------------------------------------------------------------------
Composer(st, pend) == [story |-> st, pending |-> pend]

Current == Composer(story, _pending_heading)

\* variant: the buffered blocks are appended in reverse order
_flush_heading_Reversed(c) ==
    IF c.pending # <<>>
    THEN Composer(c.story \o [k \in 1..Len(c.pending) |-> c.pending[Len(c.pending) + 1 - k]],
                  <<>>)
    ELSE c

\* variant: the buffered blocks are put in front of the stream
_flush_heading_Front(c) ==
    IF c.pending # <<>>
    THEN Composer(c.pending \o c.story, <<>>)
    ELSE c

\* variant: the buffer is emptied and its blocks are not appended
_flush_heading_Drop(c) == Composer(c.story, <<>>)

\* variant: the buffered blocks are appended as one keep-together group
_flush_heading_Grouped(c) ==
    IF c.pending # <<>>
    THEN Composer(Append(c.story, KeepTogether(c.pending)), <<>>)
    ELSE c

\* variant: the buffer is not emptied after its blocks are appended
_flush_heading_NoClear(c) ==
    IF c.pending # <<>>
    THEN Composer(c.story \o c.pending, c.pending)
    ELSE c

_flush_heading(c) ==
    IF c.pending # <<>>
    THEN Composer(c.story \o c.pending, <<>>)
    ELSE c

\* variant: the content is wrapped in a group also when nothing is pending
_flush_heading_with_AlwaysGroup(c, content_flowable) ==
    Composer(Append(c.story, KeepTogether(c.pending \o <<content_flowable>>)), <<>>)

\* variant: the buffered blocks and the content are appended without a group
_flush_heading_with_Unbonded(c, content_flowable) ==
    Composer(c.story \o c.pending \o <<content_flowable>>, <<>>)

\* variant: the buffer is not emptied after the group is appended
_flush_heading_with_NoClear(c, content_flowable) ==
    IF c.pending # <<>>
    THEN Composer(Append(c.story, KeepTogether(c.pending \o <<content_flowable>>)), c.pending)
    ELSE Composer(Append(c.story, content_flowable), c.pending)

_flush_heading_with(c, content_flowable) ==
    IF c.pending # <<>>
    THEN Composer(Append(c.story, KeepTogether(c.pending \o <<content_flowable>>)), <<>>)
    ELSE Composer(Append(c.story, content_flowable), c.pending)

\* one entry of the call log: the operation, its arguments and the
\* identities of the flowables the call constructed, in construction order
Call(op, t, h, ids) == [op |-> op, text |-> t, h |-> h, ids |-> ids]

Commit(c, call, n) ==
    /\ story' = c.story
    /\ _pending_heading' = c.pending
    /\ calls' = Append(calls, call)
    /\ nextId' = nextId + n

\* variant: the page break is appended before the pending heading is flushed
section_heading_BreakFirst(t) ==
    LET c == _flush_heading(Composer(Append(story, PageBreak(nextId)), _pending_heading))
        anchor == _make_anchor(t)
        c2 == Composer(c.story,
                       c.pending \o << Paragraph(nextId + 1, AnchoredText(anchor, t), "h1"),
                                       AccentBar(nextId + 2),
                                       Spacer(nextId + 3, 12) >>)
    IN  Commit(c2, Call("section_heading", t, 0, <<nextId, nextId + 1, nextId + 2, nextId + 3>>), 4)

\* variant: the page break is buffered with the title
section_heading_BufferedBreak(t) ==
    LET c == IF _pending_heading # <<>>
             THEN Composer(story \o _pending_heading, <<>>)
             ELSE Current
        anchor == _make_anchor(t)
        c2 == Composer(c.story,
                       c.pending \o << PageBreak(nextId),
                                       Paragraph(nextId + 1, AnchoredText(anchor, t), "h1"),
                                       AccentBar(nextId + 2),
                                       Spacer(nextId + 3, 12) >>)
    IN  Commit(c2, Call("section_heading", t, 0, <<nextId, nextId + 1, nextId + 2, nextId + 3>>), 4)

section_heading(t) ==
    LET c == _flush_heading(Current)
        anchor == _make_anchor(t)
        c2 == Composer(Append(c.story, PageBreak(nextId)),
                       c.pending \o << Paragraph(nextId + 1, AnchoredText(anchor, t), "h1"),
                                       AccentBar(nextId + 2),
                                       Spacer(nextId + 3, 12) >>)
    IN  Commit(c2, Call("section_heading", t, 0, <<nextId, nextId + 1, nextId + 2, nextId + 3>>), 4)

\* variant: an anchor that an earlier heading call derived is made unique
sub_heading_Unique(t) ==
    LET c == _flush_heading(Current)
        taken == \E k \in 1..Len(calls) :
                    /\ calls[k].op \in {"section_heading", "sub_heading", "sub_sub_heading"}
                    /\ _make_anchor(calls[k].text) = _make_anchor(t)
        anchor == IF taken THEN _make_anchor(t) \o <<"_", "2">> ELSE _make_anchor(t)
        c2 == Composer(c.story,
                       c.pending \o << Spacer(nextId, 16),
                                       Paragraph(nextId + 1, AnchoredText(anchor, t), "h2"),
                                       Spacer(nextId + 2, 6) >>)
    IN  Commit(c2, Call("sub_heading", t, 0, <<nextId, nextId + 1, nextId + 2>>), 3)

\* variant: the pending heading is not flushed first
sub_heading_NoFlush(t) ==
    LET c == Current
        anchor == _make_anchor(t)
        c2 == Composer(c.story,
                       c.pending \o << Spacer(nextId, 16),
                                       Paragraph(nextId + 1, AnchoredText(anchor, t), "h2"),
                                       Spacer(nextId + 2, 6) >>)
    IN  Commit(c2, Call("sub_heading", t, 0, <<nextId, nextId + 1, nextId + 2>>), 3)

sub_heading(t) ==
    LET c == _flush_heading(Current)
        anchor == _make_anchor(t)
        c2 == Composer(c.story,
                       c.pending \o << Spacer(nextId, 16),
                                       Paragraph(nextId + 1, AnchoredText(anchor, t), "h2"),
                                       Spacer(nextId + 2, 6) >>)
    IN  Commit(c2, Call("sub_heading", t, 0, <<nextId, nextId + 1, nextId + 2>>), 3)

\* variant: the title is buffered before the two spacers
sub_sub_heading_TitleFirst(t) ==
    LET c == _flush_heading(Current)
        anchor == _make_anchor(t)
        c2 == Composer(c.story,
                       c.pending \o << Paragraph(nextId, AnchoredText(anchor, t), "h3"),
                                       Spacer(nextId + 1, 12),
                                       Spacer(nextId + 2, 4) >>)
    IN  Commit(c2, Call("sub_sub_heading", t, 0, <<nextId, nextId + 1, nextId + 2>>), 3)

sub_sub_heading(t) ==
    LET c == _flush_heading(Current)
        anchor == _make_anchor(t)
        c2 == Composer(c.story,
                       c.pending \o << Spacer(nextId, 12),
                                       Paragraph(nextId + 1, AnchoredText(anchor, t), "h3"),
                                       Spacer(nextId + 2, 4) >>)
    IN  Commit(c2, Call("sub_sub_heading", t, 0, <<nextId, nextId + 1, nextId + 2>>), 3)

body ==
    Commit(_flush_heading_with(Current, Paragraph(nextId, <<>>, "body")),
           Call("body", <<>>, 0, <<nextId>>), 1)

body_small ==
    Commit(_flush_heading_with(Current, Paragraph(nextId, <<>>, "body_small")),
           Call("body_small", <<>>, 0, <<nextId>>), 1)

\* variant: the spacer is buffered like a decoration of a heading
spacer_Buffered(h) ==
    LET c == _flush_heading(Current)
    IN  Commit(Composer(c.story, c.pending \o <<Spacer(nextId, h)>>),
               Call("spacer", <<>>, h, <<nextId>>), 1)

\* variant: the spacer is appended before the pending heading is flushed
spacer_BeforeFlush(h) ==
    LET c == _flush_heading(Composer(Append(story, Spacer(nextId, h)), _pending_heading))
    IN  Commit(c, Call("spacer", <<>>, h, <<nextId>>), 1)

\* variant: the spacer is bonded to the pending heading like a content block
spacer_Bonded(h) ==
    Commit(Composer(IF _pending_heading # <<>>
                    THEN Append(story, KeepTogether(_pending_heading \o <<Spacer(nextId, h)>>))
                    ELSE Append(story, Spacer(nextId, h)),
                    <<>>),
           Call("spacer", <<>>, h, <<nextId>>), 1)

spacer(h) ==
    LET c == _flush_heading(Current)
    IN  Commit(Composer(Append(c.story, Spacer(nextId, h)), c.pending),
               Call("spacer", <<>>, h, <<nextId>>), 1)

analogy ==
    Commit(_flush_heading_with(Current, CalloutBox(nextId, "note")),
           Call("analogy", <<>>, 0, <<nextId>>), 1)

info_box ==
    Commit(_flush_heading_with(Current, CalloutBox(nextId, "info")),
           Call("info_box", <<>>, 0, <<nextId>>), 1)

warning_box ==
    Commit(_flush_heading_with(Current, CalloutBox(nextId, "warning")),
           Call("warning_box", <<>>, 0, <<nextId>>), 1)

critical_box ==
    Commit(_flush_heading_with(Current, CalloutBox(nextId, "critical")),
           Call("critical_box", <<>>, 0, <<nextId>>), 1)

code ==
    Commit(_flush_heading_with(Current, CodeBlock(nextId)),
           Call("code", <<>>, 0, <<nextId>>), 1)

table ==
    Commit(_flush_heading_with(Current, CardTable(nextId)),
           Call("table", <<>>, 0, <<nextId>>), 1)

\* a module-level _flush_heading_with(g.StepIndicator(...)), as at line 1151
step_indicator ==
    Commit(_flush_heading_with(Current, StepIndicator(nextId)),
           Call("step_indicator", <<>>, 0, <<nextId>>), 1)

\* variant: the final call leaves the buffer as it is
finalize_NoFlush ==
    Commit(Current, Call("finalize", <<>>, 0, <<>>), 0)

\* a module-level _flush_heading(), as at line 2664
finalize ==
    Commit(_flush_heading(Current), Call("finalize", <<>>, 0, <<>>), 0)

\* ------------------------------------------------------------------------
\* Spec: every sequence of at most MaxCalls composer calls
\* ------------------------------------------------------------------------
HeadingTexts == { <<"2", ".", "1", " ", "A">>, <<"2", ".", "1", ".", " ", "B">>, <<"A", "b", " ", "c">> }

SpacerHeights == {4, 12}

NoAnchor == <<>>

ComposerInit ==
    /\ story = <<>>
    /\ _pending_heading = <<>>
    /\ calls = <<>>
    /\ nextId = 1
    /\ pc = 0
    /\ built = FALSE

AnchorIdle ==
    /\ text = <<>>
    /\ num = <<>>
    /\ title = <<>>
    /\ bodyAnchor = NoAnchor
    /\ tocAnchor = NoAnchor

Init == ComposerInit /\ AnchorIdle

CanCall == Len(calls) < MaxCalls

Frame == UNCHANGED <<pc, built, anchorVars>>

CallSectionHeading == \E t \in HeadingTexts : CanCall /\ section_heading(t) /\ Frame

CallSubHeading == \E t \in HeadingTexts : CanCall /\ sub_heading(t) /\ Frame

CallSubSubHeading == \E t \in HeadingTexts : CanCall /\ sub_sub_heading(t) /\ Frame

CallBody == CanCall /\ body /\ Frame

CallBodySmall == CanCall /\ body_small /\ Frame

CallSpacer == \E h \in SpacerHeights : CanCall /\ spacer(h) /\ Frame

CallAnalogy == CanCall /\ analogy /\ Frame

CallInfoBox == CanCall /\ info_box /\ Frame

CallWarningBox == CanCall /\ warning_box /\ Frame

CallCriticalBox == CanCall /\ critical_box /\ Frame

CallCode == CanCall /\ code /\ Frame

CallTable == CanCall /\ table /\ Frame

CallStepIndicator == CanCall /\ step_indicator /\ Frame

CallFinalize == CanCall /\ finalize /\ Frame

Next ==
    \/ CallSectionHeading
    \/ CallSubHeading
    \/ CallSubSubHeading
    \/ CallBody
    \/ CallBodySmall
    \/ CallSpacer
    \/ CallAnalogy
    \/ CallInfoBox
    \/ CallWarningBox
    \/ CallCriticalBox
    \/ CallCode
    \/ CallTable
    \/ CallStepIndicator
    \/ CallFinalize

Spec == Init /\ [][Next]_vars

\* ------------------------------------------------------------------------
\* SpecPure: the composer calls of Spec, and _make_anchor called on its own
\* in whatever state the composer is
\* ------------------------------------------------------------------------
CallMakeAnchor ==
    \E t \in HeadingTexts :
        /\ text' = t
        /\ bodyAnchor' = _make_anchor(t)
        /\ UNCHANGED <<composerVars, num, title, tocAnchor>>

NextPure == Next \/ CallMakeAnchor

SpecPure == Init /\ [][NextPure]_vars

\* ------------------------------------------------------------------------
\* The table of contents data (lines 165-232): <<num, title, is_sub>>
\* ------------------------------------------------------------------------
toc_entries == <<
    <<<<"1", ".">>, <<"A", "b", "s", "t", "r", "a", "c", "t">>, FALSE>>,
    <<<<"2", ".">>, <<"I", "n", "t", "r", "o", "d", "u", "c", "t", "i", "o", "n">>, FALSE>>,
    <<<<"2", ".", "1">>, <<"T", "h", "e", " ", "Q", "u", "a", "n", "t", "u", "m", " ", "T", "h", "r", "e", "a", "t">>, TRUE>>,
    <<<<"2", ".", "2">>, <<"W", "h", "y", " ", "F", "R", "O", "S", "T", " ", "a", "n", "d", " ", "M", "u", "S", "i", "g", "2", " ", "D", "i", "e", " ", "U", "n", "d", "e", "r", " ", "Q", "u", "a", "n", "t", "u", "m">>, TRUE>>,
    <<<<"2", ".", "3">>, <<"W", "h", "a", "t", " ", "i", "s", " ", "M", "L", "-", "D", "S", "A", "?">>, TRUE>>,
    <<<<"2", ".", "4">>, <<"T", "h", "e", " ", "F", "u", "n", "d", "a", "m", "e", "n", "t", "a", "l", " ", "C", "h", "a", "l", "l", "e", "n", "g", "e">>, TRUE>>,
    <<<<"2", ".", "5">>, <<"P", "E", "R", "M", "A", "F", "R", "O", "S", "T", ":", " ", "T", "h", "e", " ", "S", "o", "l", "u", "t", "i", "o", "n">>, TRUE>>,
    <<<<"3", ".">>, <<"A", "c", "c", "o", "u", "n", "t", "-", "L", "e", "v", "e", "l", " ", "I", "n", "v", "i", "s", "i", "b", "l", "e", " ", "M", "u", "l", "t", "i", "s", "i", "g">>, FALSE>>,
    <<<<"3", ".", "1">>, <<"Y", "o", "u", "r", " ", "A", "c", "c", "o", "u", "n", "t", " ", "I", "S", " ", "t", "h", "e", " ", "M", "u", "l", "t", "i", "s", "i", "g">>, TRUE>>,
    <<<<"3", ".", "2">>, <<"O", "n", "-", "C", "h", "a", "i", "n", " ", "I", "n", "d", "i", "s", "t", "i", "n", "g", "u", "i", "s", "h", "a", "b", "i", "l", "i", "t", "y">>, TRUE>>,
    <<<<"3", ".", "3">>, <<"C", "o", "m", "p", "a", "r", "i", "s", "o", "n", ":", " ", "S", "m", "a", "r", "t", " ", "C", "o", "n", "t", "r", "a", "c", "t", " ", "v", "s", " ", "A", "c", "c", "o", "u", "n", "t", "-", "L", "e", "v", "e", "l">>, TRUE>>,
    <<<<"3", ".", "4">>, <<"O", "P", "N", "e", "t", " ", "I", "n", "t", "e", "g", "r", "a", "t", "i", "o", "n">>, TRUE>>,
    <<<<"4", ".">>, <<"C", "o", "m", "p", "a", "r", "i", "s", "o", "n", " ", "w", "i", "t", "h", " ", "E", "x", "i", "s", "t", "i", "n", "g", " ", "A", "p", "p", "r", "o", "a", "c", "h", "e", "s">>, FALSE>>,
    <<<<"4", ".", "1">>, <<"v", "s", " ", "M", "u", "S", "i", "g", "2">>, TRUE>>,
    <<<<"4", ".", "2">>, <<"v", "s", " ", "F", "R", "O", "S", "T">>, TRUE>>,
    <<<<"4", ".", "3">>, <<"v", "s", " ", "S", "m", "a", "r", "t", " ", "C", "o", "n", "t", "r", "a", "c", "t", " ", "M", "u", "l", "t", "i", "s", "i", "g">>, TRUE>>,
    <<<<"4", ".", "4">>, <<"F", "e", "a", "t", "u", "r", "e", " ", "M", "a", "t", "r", "i", "x">>, TRUE>>,
    <<<<"5", ".">>, <<"M", "a", "t", "h", "e", "m", "a", "t", "i", "c", "a", "l", " ", "F", "o", "u", "n", "d", "a", "t", "i", "o", "n", "s">>, FALSE>>,
    <<<<"5", ".", "1">>, <<"T", "h", "e", " ", "P", "o", "l", "y", "n", "o", "m", "i", "a", "l", " ", "R", "i", "n", "g">>, TRUE>>,
    <<<<"5", ".", "2">>, <<"N", "u", "m", "b", "e", "r", " ", "T", "h", "e", "o", "r", "e", "t", "i", "c", " ", "T", "r", "a", "n", "s", "f", "o", "r", "m">>, TRUE>>,
    <<<<"5", ".", "3">>, <<"M", "o", "d", "u", "l", "a", "r", " ", "A", "r", "i", "t", "h", "m", "e", "t", "i", "c">>, TRUE>>,
    <<<<"5", ".", "4">>, <<"D", "e", "c", "o", "m", "p", "o", "s", "i", "t", "i", "o", "n", " ", "F", "u", "n", "c", "t", "i", "o", "n", "s">>, TRUE>>,
    <<<<"5", ".", "5">>, <<"S", "a", "m", "p", "l", "i", "n", "g", " ", "F", "u", "n", "c", "t", "i", "o", "n", "s">>, TRUE>>,
    <<<<"6", ".">>, <<"M", "L", "-", "D", "S", "A", " ", "(", "F", "I", "P", "S", " ", "2", "0", "4", ")", " ", "B", "a", "c", "k", "g", "r", "o", "u", "n", "d">>, FALSE>>,
    <<<<"6", ".", "1">>, <<"P", "a", "r", "a", "m", "e", "t", "e", "r", "s">>, TRUE>>,
    <<<<"6", ".", "2">>, <<"K", "e", "y", " ", "G", "e", "n", "e", "r", "a", "t", "i", "o", "n">>, TRUE>>,
    <<<<"6", ".", "3">>, <<"S", "i", "g", "n", "i", "n", "g", " ", "A", "l", "g", "o", "r", "i", "t", "h", "m">>, TRUE>>,
    <<<<"6", ".", "4">>, <<"V", "e", "r", "i", "f", "i", "c", "a", "t", "i", "o", "n">>, TRUE>>,
    <<<<"6", ".", "5">>, <<"W", "h", "y", " ", "T", "h", "r", "e", "s", "h", "o", "l", "d", " ", "i", "s", " ", "H", "a", "r", "d">>, TRUE>>,
    <<<<"7", ".">>, <<"T", "h", "r", "e", "s", "h", "o", "l", "d", " ", "C", "o", "n", "s", "t", "r", "u", "c", "t", "i", "o", "n", " ", "O", "v", "e", "r", "v", "i", "e", "w">>, FALSE>>,
    <<<<"7", ".", "1">>, <<"H", "y", "p", "e", "r", "b", "a", "l", "l", " ", "M", "a", "s", "k", "i", "n", "g">>, TRUE>>,
    <<<<"7", ".", "2">>, <<"A", "d", "d", "i", "t", "i", "v", "e", " ", "S", "e", "c", "r", "e", "t", " ", "S", "h", "a", "r", "i", "n", "g">>, TRUE>>,
    <<<<"7", ".", "3">>, <<"C", "o", "m", "b", "i", "n", "a", "t", "o", "r", "i", "a", "l", " ", "A", "p", "p", "r", "o", "a", "c", "h">>, TRUE>>,
    <<<<"8", ".">>, <<"K", "e", "y", " ", "G", "e", "n", "e", "r", "a", "t", "i", "o", "n", " ", "I", "n", "t", "e", "r", "n", "a", "l", "s">>, FALSE>>,
    <<<<"8", ".", "1">>, <<"H", "o", "w", " ", "S", "h", "a", "r", "e", "s", " ", "A", "r", "e", " ", "C", "o", "n", "s", "t", "r", "u", "c", "t", "e", "d">>, TRUE>>,
    <<<<"8", ".", "2">>, <<"G", "o", "s", "p", "e", "r", "'", "s", " ", "H", "a", "c", "k", " ", "f", "o", "r", " ", "S", "u", "b", "s", "e", "t", " ", "E", "n", "u", "m", "e", "r", "a", "t", "i", "o", "n">>, TRUE>>,
    <<<<"8", ".", "3">>, <<"d", "e", "r", "i", "v", "e", "U", "n", "i", "f", "o", "r", "m", "L", "e", "q", "E", "t", "a">>, TRUE>>,
    <<<<"9", ".">>, <<"D", "e", "a", "l", "e", "r", "l", "e", "s", "s", " ", "D", "K", "G", ":", " ", "T", "h", "e", " ", "P", "E", "R", "M", "A", "F", "R", "O", "S", "T", " ", "K", "e", "y", " ", "C", "e", "r", "e", "m", "o", "n", "y">>, FALSE>>,
    <<<<"9", ".", "1">>, <<"D", "e", "s", "i", "g", "n", " ", "D", "e", "c", "i", "s", "i", "o", "n", "s">>, TRUE>>,
    <<<<"9", ".", "2">>, <<"H", "a", "r", "d", " ", "I", "n", "v", "a", "r", "i", "a", "n", "t", "s">>, TRUE>>,
    <<<<"9", ".", "3">>, <<"P", "r", "e", "r", "e", "q", "u", "i", "s", "i", "t", "e", "s">>, TRUE>>,
    <<<<"9", ".", "4">>, <<"T", "h", "e", " ", "F", "o", "u", "r", " ", "P", "h", "a", "s", "e", "s">>, TRUE>>,
    <<<<"9", ".", "7">>, <<"C", "o", "m", "p", "l", "a", "i", "n", "t", " ", "a", "n", "d", " ", "A", "b", "o", "r", "t", " ", "P", "r", "o", "t", "o", "c", "o", "l">>, TRUE>>,
    <<<<"9", ".", "8">>, <<"S", "e", "c", "u", "r", "i", "t", "y", " ", "P", "r", "o", "o", "f", "s">>, TRUE>>,
    <<<<"1", "0", ".">>, <<"H", "y", "p", "e", "r", "b", "a", "l", "l", " ", "S", "a", "m", "p", "l", "i", "n", "g">>, FALSE>>,
    <<<<"1", "0", ".", "1">>, <<"T", "h", "e", " ", "s", "a", "m", "p", "l", "e", "H", "y", "p", "e", "r", "b", "a", "l", "l", " ", "A", "l", "g", "o", "r", "i", "t", "h", "m">>, TRUE>>,
    <<<<"1", "0", ".", "2">>, <<"B", "o", "x", "-", "M", "u", "l", "l", "e", "r", " ", "T", "r", "a", "n", "s", "f", "o", "r", "m">>, TRUE>>,
    <<<<"1", "0", ".", "3">>, <<"B", "i", "g", "I", "n", "t", " ", "P", "r", "e", "c", "i", "s", "i", "o", "n">>, TRUE>>,
    <<<<"1", "0", ".", "4">>, <<"T", "h", "e", " ", "C", "1", " ", "F", "i", "x">>, TRUE>>,
    <<<<"1", "1", ".">>, <<"S", "h", "a", "r", "e", " ", "R", "e", "c", "o", "v", "e", "r", "y">>, FALSE>>,
    <<<<"1", "2", ".">>, <<"T", "h", "e", " ", "3", "-", "R", "o", "u", "n", "d", " ", "D", "i", "s", "t", "r", "i", "b", "u", "t", "e", "d", " ", "S", "i", "g", "n", "i", "n", "g", " ", "P", "r", "o", "t", "o", "c", "o", "l">>, FALSE>>,
    <<<<"1", "2", ".", "1">>, <<"R", "o", "u", "n", "d", " ", "1", ":", " ", "C", "o", "m", "m", "i", "t", "m", "e", "n", "t">>, TRUE>>,
    <<<<"1", "2", ".", "2">>, <<"R", "o", "u", "n", "d", " ", "2", ":", " ", "R", "e", "v", "e", "a", "l">>, TRUE>>,
    <<<<"1", "2", ".", "3">>, <<"R", "o", "u", "n", "d", " ", "3", ":", " ", "P", "a", "r", "t", "i", "a", "l", " ", "R", "e", "s", "p", "o", "n", "s", "e">>, TRUE>>,
    <<<<"1", "2", ".", "4">>, <<"T", "h", "e", " ", "H", "1", " ", "T", "i", "m", "i", "n", "g", " ", "F", "i", "x">>, TRUE>>,
    <<<<"1", "3", ".">>, <<"C", "o", "m", "b", "i", "n", "e", ":", " ", "S", "i", "g", "n", "a", "t", "u", "r", "e", " ", "F", "i", "n", "a", "l", "i", "z", "a", "t", "i", "o", "n">>, FALSE>>,
    <<<<"1", "4", ".">>, <<"P", "o", "l", "y", "n", "o", "m", "i", "a", "l", " ", "P", "a", "c", "k", "i", "n", "g", ":", " ", "2", "3", "-", "B", "i", "t", " ", "E", "n", "c", "o", "d", "i", "n", "g">>, FALSE>>,
    <<<<"1", "5", ".">>, <<"P", "a", "r", "a", "m", "e", "t", "e", "r", " ", "T", "a", "b", "l", "e", "s">>, FALSE>>,
    <<<<"1", "6", ".">>, <<"S", "e", "c", "u", "r", "i", "t", "y", " ", "A", "n", "a", "l", "y", "s", "i", "s", " ", "a", "n", "d", " ", "H", "a", "r", "d", "e", "n", "i", "n", "g">>, FALSE>>,
    <<<<"1", "7", ".">>, <<"F", "r", "o", "n", "t", "e", "n", "d", " ", "I", "n", "t", "e", "g", "r", "a", "t", "i", "o", "n", ":", " ", "C", "o", "m", "m", "u", "n", "i", "c", "a", "t", "i", "o", "n", " ", "L", "a", "y", "e", "r">>, FALSE>>,
    <<<<"1", "8", ".">>, <<"F", "l", "o", "a", "t", "6", "4", " ", "P", "r", "e", "c", "i", "s", "i", "o", "n", " ", "A", "n", "a", "l", "y", "s", "i", "s">>, FALSE>>,
    <<<<"1", "9", ".">>, <<"A", "r", "c", "h", "i", "t", "e", "c", "t", "u", "r", "e", " ", "a", "n", "d", " ", "I", "m", "p", "l", "e", "m", "e", "n", "t", "a", "t", "i", "o", "n">>, FALSE>>,
    <<<<"2", "0", ".">>, <<"A", "P", "I", " ", "R", "e", "f", "e", "r", "e", "n", "c", "e">>, FALSE>>,
    <<<<"2", "1", ".">>, <<"K", "n", "o", "w", "n", " ", "L", "i", "m", "i", "t", "a", "t", "i", "o", "n", "s">>, FALSE>>,
    <<<<"A", ".">>, <<"N", "o", "t", "a", "t", "i", "o", "n", " ", "R", "e", "f", "e", "r", "e", "n", "c", "e">>, FALSE>>,
    <<<<"B", ".">>, <<"T", "e", "s", "t", " ", "C", "o", "v", "e", "r", "a", "g", "e">>, FALSE>>
>>

\* ------------------------------------------------------------------------
\* The statements the script executes at module level, in order
\* (lines 149-2665); the for loop of line 239 is one step per entry.
\* ------------------------------------------------------------------------
Step(op, t, n) == [op |-> op, text |-> t, n |-> n]

Do(op) == Step(op, <<>>, 0)

DoSpacer(op, h) == Step(op, <<>>, h)

DoHeading(op, t) == Step(op, t, 0)

ScriptBeforeToc == <<
    Do("add_cover"), Do("append_toc_title"), Do("append_AccentBar"),
    DoSpacer("append_Spacer", 16)
>>

ScriptTocLoop == [k \in 1..Len(toc_entries) |-> Step("toc_row", <<>>, k)]

ScriptAfterToc == <<
    Do("append_PageBreak"), Do("append_sec_1"), Do("append_AccentBar"),
    DoSpacer("spacer", 12), Do("body"), DoSpacer("spacer", 8), Do("body"),
    DoSpacer("spacer", 8), Do("body"), DoSpacer("spacer", 8), Do("body"),
    DoSpacer("spacer", 8), Do("body"), DoSpacer("spacer", 8), Do("info_box"),
    \* line 315
    DoHeading("section_heading",
        <<"2", ".", " ", "I", "n", "t", "r", "o", "d", "u", "c", "t", "i", "o", "n">>),
    \* line 317
    DoHeading("sub_heading",
        <<"2", ".", "1", " ", "T", "h", "e", " ", "Q", "u", "a", "n", "t", "u", "m", " ", "T", "h", "r", "e", "a", "t", " ", "t", "o", " ", "T", "h", "r", "e", "s", "h", "o", "l", "d", " ", "S", "i", "g", "n", "a", "t", "u", "r", "e", "s">>),
    Do("body"), DoSpacer("spacer", 8), Do("body"), DoSpacer("spacer", 8),
    Do("body"),
    \* line 344
    DoHeading("sub_heading",
        <<"2", ".", "2", " ", "W", "h", "y", " ", "F", "R", "O", "S", "T", " ", "a", "n", "d", " ", "M", "u", "S", "i", "g", "2", " ", "D", "i", "e", " ", "U", "n", "d", "e", "r", " ", "Q", "u", "a", "n", "t", "u", "m">>),
    Do("body"), DoSpacer("spacer", 8), Do("body"), DoSpacer("spacer", 8),
    Do("body"), Do("analogy"),
    \* line 375
    DoHeading("sub_heading",
        <<"2", ".", "3", " ", "W", "h", "a", "t", " ", "i", "s", " ", "M", "L", "-", "D", "S", "A", " ", "(", "F", "I", "P", "S", " ", "2", "0", "4", ")", "?">>),
    Do("body"), DoSpacer("spacer", 8), Do("body"),
    \* line 393
    DoHeading("sub_heading",
        <<"2", ".", "4", " ", "T", "h", "e", " ", "F", "u", "n", "d", "a", "m", "e", "n", "t", "a", "l", " ", "C", "h", "a", "l", "l", "e", "n", "g", "e", ":", " ", "N", "o", "n", "-", "L", "i", "n", "e", "a", "r", "i", "t", "y">>),
    Do("body"), DoSpacer("spacer", 8), Do("body"), DoSpacer("spacer", 4),
    Do("body"), DoSpacer("spacer", 4), Do("body"), DoSpacer("spacer", 8),
    Do("body"),
    \* line 428
    DoHeading("sub_heading",
        <<"2", ".", "5", " ", "P", "E", "R", "M", "A", "F", "R", "O", "S", "T", ":", " ", "T", "h", "e", " ", "C", "o", "m", "p", "l", "e", "t", "e", " ", "S", "o", "l", "u", "t", "i", "o", "n">>),
    Do("body"), DoSpacer("spacer", 8), Do("body"), DoSpacer("spacer", 4),
    Do("body"), DoSpacer("spacer", 4), Do("body"), Do("info_box"),
    \* line 466
    DoHeading("section_heading",
        <<"3", ".", " ", "A", "c", "c", "o", "u", "n", "t", "-", "L", "e", "v", "e", "l", " ", "I", "n", "v", "i", "s", "i", "b", "l", "e", " ", "M", "u", "l", "t", "i", "s", "i", "g">>),
    \* line 468
    DoHeading("sub_heading",
        <<"3", ".", "1", " ", "Y", "o", "u", "r", " ", "A", "c", "c", "o", "u", "n", "t", " ", "I", "S", " ", "t", "h", "e", " ", "M", "u", "l", "t", "i", "s", "i", "g">>),
    Do("body"), DoSpacer("spacer", 8), Do("body"), Do("analogy"),
    \* line 492
    DoHeading("sub_heading",
        <<"3", ".", "2", " ", "O", "n", "-", "C", "h", "a", "i", "n", " ", "I", "n", "d", "i", "s", "t", "i", "n", "g", "u", "i", "s", "h", "a", "b", "i", "l", "i", "t", "y">>),
    Do("body"), DoSpacer("spacer", 8), Do("table"),
    \* line 514
    DoHeading("sub_heading",
        <<"3", ".", "3", " ", "C", "o", "m", "p", "a", "r", "i", "s", "o", "n", ":", " ", "S", "m", "a", "r", "t", " ", "C", "o", "n", "t", "r", "a", "c", "t", " ", "v", "s", " ", "A", "c", "c", "o", "u", "n", "t", "-", "L", "e", "v", "e", "l">>),
    Do("table"),
    \* line 531
    DoHeading("sub_heading",
        <<"3", ".", "4", " ", "O", "P", "N", "e", "t", " ", "I", "n", "t", "e", "g", "r", "a", "t", "i", "o", "n">>),
    Do("body"), DoSpacer("spacer", 8), Do("body"), DoSpacer("spacer", 8),
    Do("code"), DoSpacer("spacer", 8), Do("body"), DoSpacer("spacer", 8),
    Do("body"),
    \* line 593
    DoHeading("section_heading",
        <<"4", ".", " ", "C", "o", "m", "p", "a", "r", "i", "s", "o", "n", " ", "w", "i", "t", "h", " ", "E", "x", "i", "s", "t", "i", "n", "g", " ", "A", "p", "p", "r", "o", "a", "c", "h", "e", "s">>),
    \* line 595
    DoHeading("sub_heading",
        <<"4", ".", "1", " ", "v", "s", " ", "M", "u", "S", "i", "g", "2", " ", "(", "B", "i", "t", "c", "o", "i", "n", " ", "S", "c", "h", "n", "o", "r", "r", ")">>),
    Do("body"),
    \* line 604
    DoHeading("sub_heading",
        <<"4", ".", "2", " ", "v", "s", " ", "F", "R", "O", "S", "T", " ", "(", "S", "c", "h", "n", "o", "r", "r", " ", "T", "h", "r", "e", "s", "h", "o", "l", "d", ")">>),
    Do("body"),
    \* line 614
    DoHeading("sub_heading",
        <<"4", ".", "3", " ", "v", "s", " ", "S", "m", "a", "r", "t", " ", "C", "o", "n", "t", "r", "a", "c", "t", " ", "M", "u", "l", "t", "i", "s", "i", "g">>),
    Do("body"),
    \* line 623
    DoHeading("sub_heading",
        <<"4", ".", "4", " ", "F", "e", "a", "t", "u", "r", "e", " ", "M", "a", "t", "r", "i", "x">>),
    Do("table"), DoSpacer("spacer", 12), Do("info_box"),
    \* line 654
    DoHeading("section_heading",
        <<"5", ".", " ", "M", "a", "t", "h", "e", "m", "a", "t", "i", "c", "a", "l", " ", "F", "o", "u", "n", "d", "a", "t", "i", "o", "n", "s">>),
    \* line 656
    DoHeading("sub_heading",
        <<"5", ".", "1", " ", "T", "h", "e", " ", "P", "o", "l", "y", "n", "o", "m", "i", "a", "l", " ", "R", "i", "n", "g", " ", "R", "_", "q">>),
    Do("body"), DoSpacer("spacer", 4), Do("body"), DoSpacer("spacer", 4),
    Do("body"), DoSpacer("spacer", 8), Do("body"), Do("analogy"),
    \* line 686
    DoHeading("sub_heading",
        <<"5", ".", "2", " ", "N", "u", "m", "b", "e", "r", " ", "T", "h", "e", "o", "r", "e", "t", "i", "c", " ", "T", "r", "a", "n", "s", "f", "o", "r", "m", " ", "(", "N", "T", "T", ")">>),
    Do("body"), DoSpacer("spacer", 4), Do("body"), DoSpacer("spacer", 4),
    Do("body"), DoSpacer("spacer", 4), Do("body"), DoSpacer("spacer", 8),
    Do("body"), DoSpacer("spacer", 8), Do("body"),
    \* line 719
    DoHeading("sub_heading",
        <<"5", ".", "3", " ", "M", "o", "d", "u", "l", "a", "r", " ", "A", "r", "i", "t", "h", "m", "e", "t", "i", "c">>),
    Do("body"), DoSpacer("spacer", 4), Do("body"), DoSpacer("spacer", 4),
    Do("body"), DoSpacer("spacer", 8), Do("body"),
    \* line 739
    DoHeading("sub_heading",
        <<"5", ".", "4", " ", "D", "e", "c", "o", "m", "p", "o", "s", "i", "t", "i", "o", "n", " ", "F", "u", "n", "c", "t", "i", "o", "n", "s">>),
    Do("body"), DoSpacer("spacer", 8), Do("body"), DoSpacer("spacer", 4),
    Do("body"), DoSpacer("spacer", 4), Do("body"), DoSpacer("spacer", 4),
    Do("body"),
    \* line 768
    DoHeading("sub_heading",
        <<"5", ".", "5", " ", "S", "a", "m", "p", "l", "i", "n", "g", " ", "F", "u", "n", "c", "t", "i", "o", "n", "s">>),
    Do("body"), DoSpacer("spacer", 4), Do("body"), DoSpacer("spacer", 4),
    Do("body"),
    \* line 789
    DoHeading("section_heading",
        <<"6", ".", " ", "M", "L", "-", "D", "S", "A", " ", "(", "F", "I", "P", "S", " ", "2", "0", "4", ")", " ", "B", "a", "c", "k", "g", "r", "o", "u", "n", "d">>),
    \* line 791
    DoHeading("sub_heading",
        <<"6", ".", "1", " ", "S", "t", "a", "n", "d", "a", "r", "d", " ", "P", "a", "r", "a", "m", "e", "t", "e", "r", "s">>),
    Do("table"),
    \* line 813
    DoHeading("sub_heading",
        <<"6", ".", "2", " ", "K", "e", "y", " ", "G", "e", "n", "e", "r", "a", "t", "i", "o", "n">>),
    Do("body"), DoSpacer("spacer", 4), Do("body"), Do("body"), Do("body"),
    Do("body"), Do("body"), Do("body"),
    \* line 839
    DoHeading("sub_heading",
        <<"6", ".", "3", " ", "S", "i", "g", "n", "i", "n", "g", " ", "A", "l", "g", "o", "r", "i", "t", "h", "m", " ", "(", "R", "e", "j", "e", "c", "t", "i", "o", "n", " ", "S", "a", "m", "p", "l", "i", "n", "g", " ", "L", "o", "o", "p", ")">>),
    Do("body"), DoSpacer("spacer", 4), Do("body"), Do("body"), Do("body"),
    Do("body"), Do("body"), Do("body"), Do("body"), Do("body"), Do("body"),
    \* line 876
    DoHeading("sub_heading",
        <<"6", ".", "4", " ", "V", "e", "r", "i", "f", "i", "c", "a", "t", "i", "o", "n">>),
    Do("body"),
    \* line 885
    DoHeading("sub_heading",
        <<"6", ".", "5", " ", "W", "h", "y", " ", "T", "h", "r", "e", "s", "h", "o", "l", "d", " ", "i", "s", " ", "H", "a", "r", "d", " ", "f", "o", "r", " ", "M", "L", "-", "D", "S", "A">>),
    Do("body"), DoSpacer("spacer", 8), Do("critical_box"),
    DoSpacer("spacer", 8), Do("body"),
    \* line 913
    DoHeading("section_heading",
        <<"7", ".", " ", "T", "h", "r", "e", "s", "h", "o", "l", "d", " ", "C", "o", "n", "s", "t", "r", "u", "c", "t", "i", "o", "n", " ", "O", "v", "e", "r", "v", "i", "e", "w">>),
    \* line 915
    DoHeading("sub_heading",
        <<"7", ".", "1", " ", "H", "i", "g", "h", "-", "L", "e", "v", "e", "l", " ", "P", "r", "o", "t", "o", "c", "o", "l", " ", "F", "l", "o", "w">>),
    Do("body"),
    \* line 924
    DoHeading("sub_heading",
        <<"7", ".", "2", " ", "T", "h", "e", " ", "H", "y", "p", "e", "r", "b", "a", "l", "l", " ", "M", "a", "s", "k", "i", "n", "g", " ", "B", "r", "e", "a", "k", "t", "h", "r", "o", "u", "g", "h">>),
    Do("body"), DoSpacer("spacer", 4), Do("body"), Do("body"), Do("body"),
    DoSpacer("spacer", 8), Do("body"), Do("analogy"),
    \* line 954
    DoHeading("sub_heading",
        <<"7", ".", "3", " ", "A", "d", "d", "i", "t", "i", "v", "e", " ", "S", "e", "c", "r", "e", "t", " ", "S", "h", "a", "r", "i", "n", "g", " ", "o", "v", "e", "r", " ", "B", "i", "t", "m", "a", "s", "k", "s">>),
    Do("body"), DoSpacer("spacer", 8), Do("body"), DoSpacer("spacer", 8),
    Do("body"),
    \* line 979
    DoHeading("section_heading",
        <<"8", ".", " ", "K", "e", "y", " ", "G", "e", "n", "e", "r", "a", "t", "i", "o", "n", " ", "I", "n", "t", "e", "r", "n", "a", "l", "s">>),
    \* line 981
    DoHeading("sub_heading",
        <<"8", ".", "1", " ", "H", "o", "w", " ", "S", "h", "a", "r", "e", "s", " ", "A", "r", "e", " ", "C", "o", "n", "s", "t", "r", "u", "c", "t", "e", "d", " ", "(", "3", "-", "o", "f", "-", "5", " ", "E", "x", "a", "m", "p", "l", "e", ")">>),
    Do("body"), DoSpacer("spacer", 8), Do("body"), DoSpacer("spacer", 4),
    Do("body"), DoSpacer("spacer", 4), Do("body"), DoSpacer("spacer", 4),
    Do("body"),
    \* line 1011
    DoHeading("sub_heading",
        <<"8", ".", "2", " ", "G", "o", "s", "p", "e", "r", "'", "s", " ", "H", "a", "c", "k", " ", "f", "o", "r", " ", "S", "u", "b", "s", "e", "t", " ", "E", "n", "u", "m", "e", "r", "a", "t", "i", "o", "n">>),
    Do("body"), Do("code"), DoSpacer("spacer", 8), Do("body"),
    DoSpacer("spacer", 4), Do("body"), DoSpacer("spacer", 4), Do("body"),
    DoSpacer("spacer", 4), Do("body"), Do("info_box"),
    \* line 1058
    DoHeading("sub_heading",
        <<"8", ".", "3", " ", "d", "e", "r", "i", "v", "e", "U", "n", "i", "f", "o", "r", "m", "L", "e", "q", "E", "t", "a">>),
    Do("body"), DoSpacer("spacer", 4), Do("body"), DoSpacer("spacer", 4),
    Do("body"),
    \* line 1077
    DoHeading("section_heading",
        <<"9", ".", " ", "D", "e", "a", "l", "e", "r", "l", "e", "s", "s", " ", "D", "K", "G", ":", " ", "T", "h", "e", " ", "P", "E", "R", "M", "A", "F", "R", "O", "S", "T", " ", "K", "e", "y", " ", "C", "e", "r", "e", "m", "o", "n", "y">>),
    Do("body"), Do("analogy"),
    \* line 1093
    DoHeading("sub_heading",
        <<"9", ".", "1", " ", "D", "e", "s", "i", "g", "n", " ", "D", "e", "c", "i", "s", "i", "o", "n", "s", ":", " ", "P", "e", "r", "-", "B", "i", "t", "m", "a", "s", "k", " ", "S", "e", "e", "d", " ", "D", "e", "r", "i", "v", "a", "t", "i", "o", "n">>),
    Do("body"), DoSpacer("spacer", 8), Do("table"), DoSpacer("spacer", 8),
    Do("body"),
    \* line 1120
    DoHeading("sub_heading",
        <<"9", ".", "2", " ", "H", "a", "r", "d", " ", "I", "n", "v", "a", "r", "i", "a", "n", "t", "s">>),
    Do("critical_box"),
    \* line 1131
    DoHeading("sub_heading",
        <<"9", ".", "3", " ", "P", "r", "e", "r", "e", "q", "u", "i", "s", "i", "t", "e", "s">>),
    Do("body"), DoSpacer("spacer", 4), Do("body"), DoSpacer("spacer", 4),
    Do("body"),
    \* line 1148
    DoHeading("sub_heading",
        <<"9", ".", "4", " ", "T", "h", "e", " ", "F", "o", "u", "r", " ", "P", "h", "a", "s", "e", "s">>),
    Do("step_indicator"), DoSpacer("spacer", 4), Do("body"),
    DoSpacer("spacer", 4), Do("body"), DoSpacer("spacer", 4), Do("body"),
    DoSpacer("spacer", 4), Do("body"), DoSpacer("spacer", 4), Do("code"),
    DoSpacer("spacer", 4), Do("body"), Do("step_indicator"),
    DoSpacer("spacer", 4), Do("body"), DoSpacer("spacer", 4), Do("body"),
    DoSpacer("spacer", 4), Do("body"), DoSpacer("spacer", 4), Do("body"),
    Do("code"), DoSpacer("spacer", 4), Do("body"), DoSpacer("spacer", 4),
    Do("body"), Do("code"), DoSpacer("spacer", 4), Do("body"),
    Do("step_indicator"), DoSpacer("spacer", 4), Do("body"),
    DoSpacer("spacer", 4), Do("body"), DoSpacer("spacer", 4), Do("body"),
    DoSpacer("spacer", 4), Do("body"), DoSpacer("spacer", 4), Do("body"),
    DoSpacer("spacer", 4), Do("body"), DoSpacer("spacer", 4), Do("body"),
    Do("step_indicator"), DoSpacer("spacer", 4), Do("body"),
    DoSpacer("spacer", 4), Do("body"), DoSpacer("spacer", 4), Do("body"),
    DoSpacer("spacer", 8), Do("body"), DoSpacer("spacer", 4), Do("code"),
    DoSpacer("spacer", 4), Do("body"), DoSpacer("spacer", 8), Do("info_box"),
    \* line 1238
    DoHeading("sub_heading",
        <<"9", ".", "5", " ", "M", "a", "s", "k", " ", "C", "a", "n", "c", "e", "l", "l", "a", "t", "i", "o", "n", ":", " ", "W", "h", "y", " ", "I", "t", " ", "W", "o", "r", "k", "s">>),
    Do("body"), DoSpacer("spacer", 4), Do("body"), DoSpacer("spacer", 8),
    Do("body"),
    \* line 1256
    DoHeading("sub_heading",
        <<"9", ".", "6", " ", "C", "o", "m", "p", "l", "a", "i", "n", "t", " ", "a", "n", "d", " ", "A", "b", "o", "r", "t", " ", "P", "r", "o", "t", "o", "c", "o", "l">>),
    Do("body"), DoSpacer("spacer", 8), Do("table"), DoSpacer("spacer", 8),
    Do("body"),
    \* line 1282
    DoHeading("sub_heading",
        <<"9", ".", "7", " ", "M", "e", "s", "s", "a", "g", "e", " ", "C", "o", "m", "p", "l", "e", "x", "i", "t", "y">>),
    Do("body"), DoSpacer("spacer", 8), Do("table"), DoSpacer("spacer", 8),
    Do("body"),
    \* line 1308
    DoHeading("sub_heading",
        <<"9", ".", "8", " ", "S", "e", "c", "u", "r", "i", "t", "y", " ", "P", "r", "o", "o", "f", "s">>),
    Do("body"),
    \* line 1315
    DoHeading("sub_sub_heading",
        <<"T", "h", "e", "o", "r", "e", "m", " ", "1", ":", " ", "C", "o", "r", "r", "e", "c", "t", "n", "e", "s", "s">>),
    Do("body"), DoSpacer("spacer", 8), Do("body"), DoSpacer("spacer", 4),
    Do("body"), DoSpacer("spacer", 4), Do("body"), DoSpacer("spacer", 4),
    Do("body"), Do("code"), DoSpacer("spacer", 4), Do("body"),
    DoSpacer("spacer", 4), Do("body"),
    \* line 1356
    DoHeading("sub_sub_heading",
        <<"T", "h", "e", "o", "r", "e", "m", " ", "2", ":", " ", "S", "t", "r", "u", "c", "t", "u", "r", "a", "l", " ", "S", "e", "c", "r", "e", "c", "y">>),
    Do("body"), DoSpacer("spacer", 8), Do("body"), DoSpacer("spacer", 4),
    Do("body"), DoSpacer("spacer", 4), Do("body"), DoSpacer("spacer", 4),
    Do("body"), Do("body"), Do("body"), DoSpacer("spacer", 4), Do("body"),
    DoSpacer("spacer", 4), Do("body"),
    \* line 1391
    DoHeading("sub_sub_heading",
        <<"T", "h", "e", "o", "r", "e", "m", " ", "3", ":", " ", "F", "o", "r", "c", "e", "d", " ", "R", "a", "n", "d", "o", "m", "n", "e", "s", "s">>),
    Do("body"), DoSpacer("spacer", 8), Do("body"), DoSpacer("spacer", 4),
    Do("body"), DoSpacer("spacer", 4), Do("body"), DoSpacer("spacer", 4),
    Do("body"), DoSpacer("spacer", 4), Do("body"), DoSpacer("spacer", 4),
    Do("body"), DoSpacer("spacer", 4), Do("body"),
    \* line 1434
    DoHeading("sub_sub_heading",
        <<"T", "h", "e", "o", "r", "e", "m", " ", "4", ":", " ", "P", "u", "b", "l", "i", "c", "-", "K", "e", "y", " ", "T", "r", "a", "n", "s", "c", "r", "i", "p", "t", " ", "E", "q", "u", "i", "v", "a", "l", "e", "n", "c", "e">>),
    Do("body"), DoSpacer("spacer", 8), Do("body"), DoSpacer("spacer", 4),
    Do("body"), Do("body"), Do("body"), Do("body"), Do("body"),
    DoSpacer("spacer", 4), Do("body"), DoSpacer("spacer", 4), Do("body"),
    DoSpacer("spacer", 4), Do("body"),
    \* line 1466
    DoHeading("sub_sub_heading",
        <<"T", "h", "e", "o", "r", "e", "m", " ", "5", ":", " ", "A", "b", "o", "r", "t", " ", "S", "a", "f", "e", "t", "y", " ", "a", "n", "d", " ", "S", "e", "s", "s", "i", "o", "n", " ", "I", "s", "o", "l", "a", "t", "i", "o", "n">>),
    Do("body"), DoSpacer("spacer", 8), Do("body"), DoSpacer("spacer", 4),
    Do("body"), DoSpacer("spacer", 4), Do("body"), DoSpacer("spacer", 4),
    Do("body"), DoSpacer("spacer", 4), Do("body"), DoSpacer("spacer", 4),
    Do("body"),
    \* line 1498
    DoHeading("sub_sub_heading",
        <<"T", "h", "e", "o", "r", "e", "m", " ", "6", ":", " ", "L", "e", "q", "E", "t", "a", " ", "B", "i", "a", "s", " ", "N", "o", "n", "-", "E", "x", "p", "l", "o", "i", "t", "a", "b", "i", "l", "i", "t", "y">>),
    Do("body"), DoSpacer("spacer", 8), Do("body"), DoSpacer("spacer", 4),
    Do("body"), DoSpacer("spacer", 4), Do("body"), DoSpacer("spacer", 4),
    Do("body"), DoSpacer("spacer", 4), Do("body"), DoSpacer("spacer", 8),
    Do("info_box"),
    \* line 1545
    DoHeading("section_heading",
        <<"1", "0", ".", " ", "H", "y", "p", "e", "r", "b", "a", "l", "l", " ", "S", "a", "m", "p", "l", "i", "n", "g">>),
    \* line 1547
    DoHeading("sub_heading",
        <<"1", "0", ".", "1", " ", "M", "o", "t", "i", "v", "a", "t", "i", "o", "n">>),
    Do("body"), DoSpacer("spacer", 8), Do("body"),
    \* line 1562
    DoHeading("sub_heading",
        <<"1", "0", ".", "2", " ", "T", "h", "e", " ", "s", "a", "m", "p", "l", "e", "H", "y", "p", "e", "r", "b", "a", "l", "l", " ", "A", "l", "g", "o", "r", "i", "t", "h", "m">>),
    Do("body"), Do("body"), DoSpacer("spacer", 8), Do("body"),
    DoSpacer("spacer", 4), Do("body"), Do("body"), Do("body"),
    \* line 1588
    DoHeading("sub_heading",
        <<"1", "0", ".", "3", " ", "B", "o", "x", "-", "M", "u", "l", "l", "e", "r", " ", "T", "r", "a", "n", "s", "f", "o", "r", "m">>),
    Do("body"), DoSpacer("spacer", 4), Do("body"), DoSpacer("spacer", 8),
    Do("body"),
    \* line 1607
    DoHeading("sub_heading",
        <<"1", "0", ".", "4", " ", "B", "i", "g", "I", "n", "t", " ", "P", "r", "e", "c", "i", "s", "i", "o", "n", " ", "f", "o", "r", " ", "U", "n", "i", "f", "o", "r", "m", " ", "F", "l", "o", "a", "t", "s">>),
    Do("body"), DoSpacer("spacer", 8), Do("code"), DoSpacer("spacer", 8),
    Do("body"),
    \* line 1628
    DoHeading("sub_heading",
        <<"1", "0", ".", "5", " ", "T", "h", "e", " ", "C", "1", " ", "F", "i", "x", ":", " ", "A", "v", "o", "i", "d", "i", "n", "g", " ", "l", "o", "g", "(", "0", ")">>),
    Do("body"), DoSpacer("spacer", 4), Do("code"), DoSpacer("spacer", 8),
    Do("body"),
    \* line 1651
    DoHeading("section_heading",
        <<"1", "1", ".", " ", "S", "h", "a", "r", "e", " ", "R", "e", "c", "o", "v", "e", "r", "y">>),
    Do("body"),
    \* line 1660
    DoHeading("sub_heading",
        <<"1", "1", ".", "1", " ", "S", "h", "a", "r", "i", "n", "g", " ", "P", "a", "t", "t", "e", "r", "n", "s">>),
    Do("body"), DoSpacer("spacer", 8), Do("body"),
    \* line 1673
    DoHeading("sub_heading",
        <<"1", "1", ".", "2", " ", "P", "e", "r", "m", "u", "t", "a", "t", "i", "o", "n", "-", "B", "a", "s", "e", "d", " ", "B", "i", "t", "m", "a", "s", "k", " ", "T", "r", "a", "n", "s", "l", "a", "t", "i", "o", "n">>),
    Do("body"), DoSpacer("spacer", 8), Do("code"),
    \* line 1696
    DoHeading("sub_heading",
        <<"1", "1", ".", "3", " ", "B", "a", "s", "e", " ", "C", "a", "s", "e", ":", " ", "T", " ", "=", " ", "N">>),
    Do("body"),
    \* line 1704
    DoHeading("sub_heading",
        <<"1", "1", ".", "4", " ", "S", "h", "a", "r", "e", " ", "A", "c", "c", "u", "m", "u", "l", "a", "t", "i", "o", "n">>),
    Do("body"),
    \* line 1716
    DoHeading("section_heading",
        <<"1", "2", ".", " ", "T", "h", "e", " ", "3", "-", "R", "o", "u", "n", "d", " ", "D", "i", "s", "t", "r", "i", "b", "u", "t", "e", "d", " ", "S", "i", "g", "n", "i", "n", "g", " ", "P", "r", "o", "t", "o", "c", "o", "l">>),
    Do("body"), DoSpacer("spacer", 8), Do("table"),
    \* line 1736
    DoHeading("sub_heading",
        <<"1", "2", ".", "1", " ", "R", "o", "u", "n", "d", " ", "1", ":", " ", "C", "o", "m", "m", "i", "t", "m", "e", "n", "t">>),
    Do("step_indicator"), DoSpacer("spacer", 4), Do("body"),
    DoSpacer("spacer", 4), Do("body"), DoSpacer("spacer", 4), Do("body"),
    DoSpacer("spacer", 4), Do("body"), DoSpacer("spacer", 4), Do("body"),
    DoSpacer("spacer", 4), Do("body"), DoSpacer("spacer", 4), Do("body"),
    Do("code"), DoSpacer("spacer", 8), Do("body"), DoSpacer("spacer", 8),
    Do("info_box"),
    \* line 1767
    DoHeading("sub_heading",
        <<"1", "2", ".", "2", " ", "R", "o", "u", "n", "d", " ", "2", ":", " ", "R", "e", "v", "e", "a", "l">>),
    Do("step_indicator"), DoSpacer("spacer", 4), Do("body"),
    DoSpacer("spacer", 4), Do("body"), DoSpacer("spacer", 4), Do("body"),
    DoSpacer("spacer", 4), Do("body"), Do("code"), DoSpacer("spacer", 4),
    Do("body"), DoSpacer("spacer", 8), Do("body"),
    \* line 1786
    DoHeading("sub_heading",
        <<"1", "2", ".", "3", " ", "R", "o", "u", "n", "d", " ", "3", ":", " ", "P", "a", "r", "t", "i", "a", "l", " ", "R", "e", "s", "p", "o", "n", "s", "e">>),
    Do("step_indicator"), DoSpacer("spacer", 4), Do("body"),
    DoSpacer("spacer", 4), Do("body"), DoSpacer("spacer", 4), Do("body"),
    DoSpacer("spacer", 4), Do("body"), DoSpacer("spacer", 4), Do("body"),
    DoSpacer("spacer", 4), Do("body"), DoSpacer("spacer", 8), Do("body"),
    \* line 1809
    DoHeading("sub_heading",
        <<"1", "2", ".", "4", " ", "T", "h", "e", " ", "H", "1", " ", "T", "i", "m", "i", "n", "g", " ", "F", "i", "x">>),
    Do("body"), DoSpacer("spacer", 8), Do("code"), DoSpacer("spacer", 8),
    Do("critical_box"),
    \* line 1841
    DoHeading("section_heading",
        <<"1", "3", ".", " ", "C", "o", "m", "b", "i", "n", "e", ":", " ", "S", "i", "g", "n", "a", "t", "u", "r", "e", " ", "F", "i", "n", "a", "l", "i", "z", "a", "t", "i", "o", "n">>),
    Do("body"),
    \* line 1850
    DoHeading("sub_heading",
        <<"1", "3", ".", "1", " ", "T", "h", "e", " ", "C", "o", "m", "b", "i", "n", "e", " ", "A", "l", "g", "o", "r", "i", "t", "h", "m">>),
    Do("body"), DoSpacer("spacer", 4), Do("body"), Do("body"), Do("body"),
    Do("body"), Do("body"), Do("body"), Do("body"), Do("body"), Do("body"),
    Do("body"),
    \* line 1887
    DoHeading("sub_heading",
        <<"1", "3", ".", "2", " ", "W", "h", "y", " ", "T", "h", "i", "s", " ", "P", "r", "o", "d", "u", "c", "e", "s", " ", "V", "a", "l", "i", "d", " ", "F", "I", "P", "S", " ", "2", "0", "4", " ", "S", "i", "g", "n", "a", "t", "u", "r", "e", "s">>),
    Do("body"), DoSpacer("spacer", 4), Do("body"), DoSpacer("spacer", 8),
    Do("body"), Do("info_box"),
    \* line 1917
    DoHeading("section_heading",
        <<"1", "4", ".", " ", "P", "o", "l", "y", "n", "o", "m", "i", "a", "l", " ", "P", "a", "c", "k", "i", "n", "g", ":", " ", "2", "3", "-", "B", "i", "t", " ", "E", "n", "c", "o", "d", "i", "n", "g">>),
    Do("body"),
    \* line 1924
    DoHeading("sub_heading",
        <<"1", "4", ".", "1", " ", "E", "n", "c", "o", "d", "i", "n", "g", ":", " ", "p", "o", "l", "y", "P", "a", "c", "k", "W">>),
    Do("body"), DoSpacer("spacer", 4), Do("code"),
    \* line 1941
    DoHeading("sub_heading",
        <<"1", "4", ".", "2", " ", "D", "e", "c", "o", "d", "i", "n", "g", ":", " ", "p", "o", "l", "y", "U", "n", "p", "a", "c", "k", "W", " ", "(", "w", "i", "t", "h", " ", "M", "7", " ", "V", "a", "l", "i", "d", "a", "t", "i", "o", "n", " ", "F", "i", "x", ")">>),
    Do("code"), DoSpacer("spacer", 8), Do("warning_box"),
    \* line 1963
    DoHeading("sub_heading",
        <<"1", "4", ".", "3", " ", "B", "i", "t", " ", "S", "a", "f", "e", "t", "y", " ", "A", "n", "a", "l", "y", "s", "i", "s">>),
    Do("body"), DoSpacer("spacer", 8), Do("body"),
    \* line 1981
    DoHeading("section_heading",
        <<"1", "5", ".", " ", "P", "a", "r", "a", "m", "e", "t", "e", "r", " ", "T", "a", "b", "l", "e", "s">>),
    \* line 1983
    DoHeading("sub_heading",
        <<"1", "5", ".", "1", " ", "M", "L", "-", "D", "S", "A", "-", "4", "4", " ", "(", "K", "=", "4", ",", " ", "L", "=", "4", ",", " ", "N", "I", "S", "T", " ", "L", "e", "v", "e", "l", " ", "2", ")">>),
    Do("table"), DoSpacer("spacer", 8), Do("body"), DoSpacer("spacer", 4),
    Do("table"),
    \* line 2018
    DoHeading("sub_heading",
        <<"1", "5", ".", "2", " ", "M", "L", "-", "D", "S", "A", "-", "6", "5", " ", "(", "K", "=", "6", ",", " ", "L", "=", "5", ",", " ", "N", "I", "S", "T", " ", "L", "e", "v", "e", "l", " ", "3", ")">>),
    Do("table"),
    \* line 2033
    DoHeading("sub_heading",
        <<"1", "5", ".", "3", " ", "M", "L", "-", "D", "S", "A", "-", "8", "7", " ", "(", "K", "=", "8", ",", " ", "L", "=", "7", ",", " ", "N", "I", "S", "T", " ", "L", "e", "v", "e", "l", " ", "5", ")">>),
    Do("table"),
    \* line 2048
    DoHeading("sub_heading",
        <<"1", "5", ".", "4", " ", "W", "h", "y", " ", "N", " ", "U+2264", " ", "6">>),
    Do("body"), DoSpacer("spacer", 4), Do("body"), Do("body"), Do("body"),
    Do("body"), DoSpacer("spacer", 8), Do("body"),
    \* line 2077
    DoHeading("section_heading",
        <<"1", "6", ".", " ", "S", "e", "c", "u", "r", "i", "t", "y", " ", "A", "n", "a", "l", "y", "s", "i", "s", " ", "a", "n", "d", " ", "H", "a", "r", "d", "e", "n", "i", "n", "g">>),
    Do("body"), DoSpacer("spacer", 8), Do("add_severity_badges"),
    DoSpacer("spacer", 12),
    \* line 2088
    DoHeading("sub_heading",
        <<"1", "6", ".", "1", " ", "C", "1", " ", "(", "C", "r", "i", "t", "i", "c", "a", "l", ")", ":", " ", "B", "o", "x", "-", "M", "u", "l", "l", "e", "r", " ", "N", "a", "N", "/", "I", "n", "f", "i", "n", "i", "t", "y", " ", "f", "r", "o", "m", " ", "l", "o", "g", "(", "0", ")">>),
    Do("body"), DoSpacer("spacer", 4), Do("body"), Do("code"),
    \* line 2102
    DoHeading("sub_heading",
        <<"1", "6", ".", "2", " ", "C", "8", " ", "(", "C", "r", "i", "t", "i", "c", "a", "l", ")", ":", " ", "N", "o", " ", "I", "n", "p", "u", "t", " ", "V", "a", "l", "i", "d", "a", "t", "i", "o", "n">>),
    Do("body"), DoSpacer("spacer", 4), Do("body"), Do("code"),
    \* line 2114
    DoHeading("sub_heading",
        <<"1", "6", ".", "3", " ", "H", "1", " ", "(", "H", "i", "g", "h", ")", ":", " ", "T", "i", "m", "i", "n", "g", " ", "L", "e", "a", "k", " ", "f", "r", "o", "m", " ", "R", "e", "j", "e", "c", "t", "i", "o", "n", " ", "P", "a", "t", "t", "e", "r", "n">>),
    Do("body"), DoSpacer("spacer", 4), Do("body"),
    \* line 2123
    DoHeading("sub_heading",
        <<"1", "6", ".", "4", " ", "H", "6", " ", "(", "H", "i", "g", "h", ")", ":", " ", "N", "o", " ", "Z", "e", "r", "o", "i", "z", "a", "t", "i", "o", "n", " ", "o", "f", " ", "S", "e", "c", "r", "e", "t", " ", "M", "a", "t", "e", "r", "i", "a", "l">>),
    Do("body"), DoSpacer("spacer", 4), Do("body"), Do("code"),
    \* line 2141
    DoHeading("sub_heading",
        <<"1", "6", ".", "5", " ", "M", "7", " ", "(", "M", "e", "d", "i", "u", "m", ")", ":", " ", "N", "o", " ", "C", "o", "e", "f", "f", "i", "c", "i", "e", "n", "t", " ", "V", "a", "l", "i", "d", "a", "t", "i", "o", "n", " ", "o", "n", " ", "U", "n", "p", "a", "c", "k">>),
    Do("body"), DoSpacer("spacer", 4), Do("body"),
    \* line 2150
    DoHeading("sub_heading",
        <<"1", "6", ".", "6", " ", "A", "d", "d", "i", "t", "i", "o", "n", "a", "l", " ", "H", "a", "r", "d", "e", "n", "i", "n", "g">>),
    Do("body"), DoSpacer("spacer", 4), Do("body"), DoSpacer("spacer", 4),
    Do("body"), DoSpacer("spacer", 4), Do("body"),
    \* line 2175
    DoHeading("section_heading",
        <<"1", "7", ".", " ", "F", "r", "o", "n", "t", "e", "n", "d", " ", "I", "n", "t", "e", "g", "r", "a", "t", "i", "o", "n", ":", " ", "C", "o", "m", "m", "u", "n", "i", "c", "a", "t", "i", "o", "n", " ", "L", "a", "y", "e", "r">>),
    Do("body"),
    \* line 2183
    DoHeading("sub_heading",
        <<"1", "7", ".", "1", " ", "T", "h", "e", " ", "C", "o", "m", "m", "u", "n", "i", "c", "a", "t", "i", "o", "n", " ", "P", "r", "o", "b", "l", "e", "m">>),
    Do("body"),
    \* line 2191
    DoHeading("sub_heading",
        <<"1", "7", ".", "2", " ", "O", "p", "t", "i", "o", "n", " ", "1", ":", " ", "W", "e", "b", "R", "T", "C", " ", "D", "a", "t", "a", "C", "h", "a", "n", "n", "e", "l", "s">>),
    Do("body"),
    \* line 2199
    DoHeading("sub_heading",
        <<"1", "7", ".", "3", " ", "R", "e", "c", "o", "m", "m", "e", "n", "d", "e", "d", ":", " ", "E", "n", "c", "r", "y", "p", "t", "e", "d", " ", "M", "a", "i", "l", "b", "o", "x", " ", "o", "v", "e", "r", " ", "W", "e", "b", "S", "o", "c", "k", "e", "t">>),
    Do("body"), DoSpacer("spacer", 8), Do("body"),
    \* line 2213
    DoHeading("sub_heading",
        <<"1", "7", ".", "4", " ", "E", "2", "E", " ", "E", "n", "c", "r", "y", "p", "t", "i", "o", "n", ":", " ", "H", "y", "b", "r", "i", "d", " ", "X", "2", "5", "5", "1", "9", " ", "+", " ", "M", "L", "-", "K", "E", "M", " ", "(", "D", "u", "a", "l", " ", "S", "y", "s", "t", "e", "m", ")">>),
    Do("body"), DoSpacer("spacer", 8), Do("body"), DoSpacer("spacer", 8),
    Do("body"), DoSpacer("spacer", 8), Do("body"), DoSpacer("spacer", 4),
    Do("body"), Do("body"), Do("body"), Do("body"), DoSpacer("spacer", 8),
    Do("body"), DoSpacer("spacer", 8), Do("warning_box"),
    DoSpacer("spacer", 8), Do("info_box"),
    \* line 2276
    DoHeading("section_heading",
        <<"1", "8", ".", " ", "F", "l", "o", "a", "t", "6", "4", " ", "P", "r", "e", "c", "i", "s", "i", "o", "n", " ", "A", "n", "a", "l", "y", "s", "i", "s">>),
    \* line 2278
    DoHeading("sub_heading",
        <<"1", "8", ".", "1", " ", "W", "h", "e", "r", "e", " ", "F", "l", "o", "a", "t", "6", "4", " ", "i", "s", " ", "U", "s", "e", "d">>),
    Do("body"),
    \* line 2287
    DoHeading("sub_heading",
        <<"1", "8", ".", "2", " ", "R", "i", "n", "g", " ", "A", "r", "i", "t", "h", "m", "e", "t", "i", "c", ":", " ", "A", "l", "w", "a", "y", "s", " ", "I", "n", "t", "3", "2">>),
    Do("body"),
    \* line 2296
    DoHeading("sub_heading",
        <<"1", "8", ".", "3", " ", "P", "l", "a", "t", "f", "o", "r", "m", " ", "D", "e", "p", "e", "n", "d", "e", "n", "c", "e", " ", "o", "f", " ", "T", "r", "a", "n", "s", "c", "e", "n", "d", "e", "n", "t", "a", "l", " ", "F", "u", "n", "c", "t", "i", "o", "n", "s">>),
    Do("body"),
    \* line 2304
    DoHeading("sub_heading",
        <<"1", "8", ".", "4", " ", "f", "v", "e", "c", "R", "o", "u", "n", "d", " ", "P", "r", "e", "c", "i", "s", "i", "o", "n">>),
    Do("body"),
    \* line 2315
    DoHeading("section_heading",
        <<"1", "9", ".", " ", "A", "r", "c", "h", "i", "t", "e", "c", "t", "u", "r", "e", " ", "a", "n", "d", " ", "I", "m", "p", "l", "e", "m", "e", "n", "t", "a", "t", "i", "o", "n">>),
    \* line 2317
    DoHeading("sub_heading",
        <<"1", "9", ".", "1", " ", "M", "o", "d", "u", "l", "e", " ", "S", "t", "r", "u", "c", "t", "u", "r", "e">>),
    Do("body"), DoSpacer("spacer", 4), Do("body"), Do("body"), Do("body"),
    Do("body"),
    \* line 2340
    DoHeading("sub_heading",
        <<"1", "9", ".", "2", " ", "C", "l", "a", "s", "s", " ", "D", "e", "s", "i", "g", "n", ":", " ", "T", "h", "r", "e", "s", "h", "o", "l", "d", "M", "L", "D", "S", "A">>),
    Do("code"),
    \* line 2368
    DoHeading("sub_heading",
        <<"1", "9", ".", "3", " ", "S", "t", "a", "t", "e", " ", "M", "a", "n", "a", "g", "e", "m", "e", "n", "t">>),
    Do("body"), DoSpacer("spacer", 4), Do("body"),
    \* line 2380
    DoHeading("sub_heading",
        <<"1", "9", ".", "4", " ", "F", "V", "e", "c", " ", "L", "a", "y", "o", "u", "t">>),
    Do("body"),
    \* line 2392
    DoHeading("section_heading",
        <<"2", "0", ".", " ", "A", "P", "I", " ", "R", "e", "f", "e", "r", "e", "n", "c", "e">>),
    \* line 2394
    DoHeading("sub_heading",
        <<"2", "0", ".", "1", " ", "T", "h", "r", "e", "s", "h", "o", "l", "d", "M", "L", "D", "S", "A", ".", "c", "r", "e", "a", "t", "e", "(", "s", "e", "c", "u", "r", "i", "t", "y", "L", "e", "v", "e", "l", ",", " ", "T", ",", " ", "N", ")">>),
    Do("table"),
    \* line 2406
    DoHeading("sub_heading",
        <<"2", "0", ".", "2", " ", "k", "e", "y", "g", "e", "n", "(", "s", "e", "e", "d", "?", ")">>),
    Do("body"),
    \* line 2414
    DoHeading("sub_heading",
        <<"2", "0", ".", "3", " ", "r", "o", "u", "n", "d", "1", "(", "s", "h", "a", "r", "e", ",", " ", "o", "p", "t", "s", "?", ")">>),
    Do("body"),
    \* line 2421
    DoHeading("sub_heading",
        <<"2", "0", ".", "4", " ", "r", "o", "u", "n", "d", "2", "(", "s", "h", "a", "r", "e", ",", " ", "a", "c", "t", "i", "v", "e", "P", "a", "r", "t", "y", "I", "d", "s", ",", " ", "m", "s", "g", ",", " ", "h", "a", "s", "h", "e", "s", ",", " ", "s", "t", "a", "t", "e", ",", " ", "o", "p", "t", "s", "?", ")">>),
    Do("body"),
    \* line 2428
    DoHeading("sub_heading",
        <<"2", "0", ".", "5", " ", "r", "o", "u", "n", "d", "3", "(", "s", "h", "a", "r", "e", ",", " ", "c", "o", "m", "m", "i", "t", "m", "e", "n", "t", "s", ",", " ", "s", "t", "a", "t", "e", "1", ",", " ", "s", "t", "a", "t", "e", "2", ")">>),
    Do("body"),
    \* line 2435
    DoHeading("sub_heading",
        <<"2", "0", ".", "6", " ", "c", "o", "m", "b", "i", "n", "e", "(", "p", "u", "b", "l", "i", "c", "K", "e", "y", ",", " ", "m", "s", "g", ",", " ", "c", "o", "m", "m", "i", "t", "m", "e", "n", "t", "s", ",", " ", "r", "e", "s", "p", "o", "n", "s", "e", "s", ",", " ", "o", "p", "t", "s", "?", ")">>),
    Do("body"),
    \* line 2442
    DoHeading("sub_heading",
        <<"2", "0", ".", "7", " ", "D", "K", "G", " ", "M", "e", "t", "h", "o", "d", "s">>),
    Do("table"),
    \* line 2457
    DoHeading("sub_heading",
        <<"2", "0", ".", "8", " ", "B", "y", "t", "e", " ", "L", "e", "n", "g", "t", "h", "s">>),
    Do("table"),
    \* line 2476
    DoHeading("section_heading",
        <<"2", "1", ".", " ", "K", "n", "o", "w", "n", " ", "L", "i", "m", "i", "t", "a", "t", "i", "o", "n", "s">>),
    \* line 2478
    DoHeading("sub_heading",
        <<"2", "1", ".", "1", " ", "N", "o", " ", "S", "i", "d", "e", "-", "C", "h", "a", "n", "n", "e", "l", " ", "P", "r", "o", "t", "e", "c", "t", "i", "o", "n", " ", "i", "n", " ", "J", "a", "v", "a", "S", "c", "r", "i", "p", "t">>),
    Do("body"),
    \* line 2487
    DoHeading("sub_heading",
        <<"2", "1", ".", "2", " ", "F", "l", "o", "a", "t", "6", "4", " ", "P", "l", "a", "t", "f", "o", "r", "m", " ", "D", "e", "p", "e", "n", "d", "e", "n", "c", "e">>),
    Do("body"),
    \* line 2494
    DoHeading("sub_heading",
        <<"2", "1", ".", "3", " ", "N", " ", "U+2264", " ", "6", " ", "C", "a", "p">>),
    Do("body"),
    \* line 2502
    DoHeading("sub_heading",
        <<"2", "1", ".", "4", " ", "I", "d", "e", "n", "t", "i", "f", "i", "a", "b", "l", "e", " ", "A", "b", "o", "r", "t", "s", " ", "(", "I", "m", "p", "l", "i", "c", "i", "t", " ", "O", "n", "l", "y", ")">>),
    Do("body"),
    \* line 2509
    DoHeading("sub_heading",
        <<"2", "1", ".", "5", " ", "D", "K", "G", " ", "L", "i", "m", "i", "t", "a", "t", "i", "o", "n", "s">>),
    Do("body"), DoSpacer("spacer", 4), Do("body"), DoSpacer("spacer", 4),
    Do("body"), DoSpacer("spacer", 4), Do("body"),
    \* line 2529
    DoHeading("sub_heading",
        <<"2", "1", ".", "6", " ", "U", "n", "a", "u", "d", "i", "t", "e", "d", " ", "I", "m", "p", "l", "e", "m", "e", "n", "t", "a", "t", "i", "o", "n">>),
    Do("warning_box"),
    \* line 2542
    DoHeading("section_heading",
        <<"A", "p", "p", "e", "n", "d", "i", "x", " ", "A", ":", " ", "N", "o", "t", "a", "t", "i", "o", "n", " ", "R", "e", "f", "e", "r", "e", "n", "c", "e">>),
    Do("table"), DoSpacer("spacer", 12), Do("table"),
    \* line 2591
    DoHeading("section_heading",
        <<"A", "p", "p", "e", "n", "d", "i", "x", " ", "B", ":", " ", "T", "e", "s", "t", " ", "C", "o", "v", "e", "r", "a", "g", "e">>),
    Do("body"),
    \* line 2597
    DoHeading("sub_heading",
        <<"T", "h", "r", "e", "s", "h", "o", "l", "d", " ", "T", "e", "s", "t", "s", " ", "(", "5", "9", " ", "t", "e", "s", "t", "s", ")">>),
    Do("table"),
    \* line 2614
    DoHeading("sub_heading",
        <<"D", "e", "a", "l", "e", "r", "l", "e", "s", "s", " ", "D", "K", "G", " ", "T", "e", "s", "t", "s", " ", "(", "5", "5", " ", "t", "e", "s", "t", "s", ")">>),
    Do("table"),
    \* line 2634
    DoHeading("sub_heading",
        <<"S", "t", "a", "n", "d", "a", "r", "d", " ", "M", "L", "-", "D", "S", "A", " ", "T", "e", "s", "t", "s", " ", "(", "2", "1", " ", "t", "e", "s", "t", "s", ")">>),
    Do("body"),
    \* line 2641
    DoHeading("sub_heading",
        <<"D", "K", "G", " ", "V", "e", "r", "i", "f", "i", "c", "a", "t", "i", "o", "n", " ", "P", "o", "i", "n", "t", "s">>),
    Do("table"), Do("finalize"), Do("build_document")
>>

Script == ScriptBeforeToc \o ScriptTocLoop \o ScriptAfterToc

\* ------------------------------------------------------------------------
\* The table of contents loop (lines 239-251)
\* ------------------------------------------------------------------------
\* variant: appendix entries get no special case
TocAnchor_NoAppendix(n) == SecPrefix \o Replace(RStrip(n, {"."}), ".", <<"_">>)

\* variant: the trailing dot of the number is not trimmed
TocAnchor_NoRstrip(n) ==
    LET num_clean == n
        anchor == SecPrefix \o Replace(num_clean, ".", <<"_">>)
    IN  IF num_clean \in { <<"A">>, <<"B">> }
        THEN <<"s", "e", "c", "_", "A", "p", "p", "e", "n", "d", "i", "x", "_">> \o num_clean
        ELSE anchor

\* lines 242-246: the anchor a table of contents row links to
TocAnchor(n) ==
    LET num_clean == RStrip(n, {"."})
        anchor == SecPrefix \o Replace(num_clean, ".", <<"_">>)
    IN  IF num_clean \in { <<"A">>, <<"B">> }
        THEN <<"s", "e", "c", "_", "A", "p", "p", "e", "n", "d", "i", "x", "_">> \o num_clean
        ELSE anchor

\* lines 247-250; the two colours are values of the generator's Theme
LinkText(anchor, n, ttl) ==
    <<"<", "a", " ", "h", "r", "e", "f", "=", "\"", "#">> \o anchor \o <<"\"", " ", "c", "o", "l", "o", "r", "=", "\"">> \o <<"Theme.ORANGE">> \o <<"\"", ">">>
        \o n \o <<"<", "/", "a", ">">>
        \o <<" ", " ", " ", "<", "a", " ", "h", "r", "e", "f", "=", "\"", "#">> \o anchor \o <<"\"", " ", "c", "o", "l", "o", "r", "=", "\"">> \o <<"Theme.text_primary">> \o <<"\"", ">">>
        \o ttl \o <<"<", "/", "a", ">">>

\* line 240
TocStyle(is_sub) == IF is_sub THEN "ts" ELSE "te"

\* story.append(flowable) at module level
DirectAppend(flowable) ==
    Commit(Composer(Append(story, flowable), _pending_heading),
           Call("story.append", <<>>, 0, <<nextId>>), 1)

\* one iteration of the loop of line 239 for entry k
toc_row(k) ==
    LET entry == toc_entries[k]
        anchor == TocAnchor(entry[1])
    IN  /\ num' = entry[1]
        /\ title' = entry[2]
        /\ tocAnchor' = anchor
        /\ DirectAppend(Paragraph(nextId, LinkText(anchor, entry[1], entry[2]),
                                  TocStyle(entry[3])))

\* variant: the heading of section 1 carries no anchor
Sec1Text_Plain == <<"1", ".", " ", "A", "b", "s", "t", "r", "a", "c", "t">>

\* line 258
Sec1Text == <<"<", "a", " ", "n", "a", "m", "e", "=", "\"", "s", "e", "c", "_", "1", "\"", "/", ">", "1", ".", " ", "A", "b", "s", "t", "r", "a", "c", "t">>

\* ------------------------------------------------------------------------
\* SpecScript: the run of the script itself
\* ------------------------------------------------------------------------
At(op) == pc \in 1..Len(Script) /\ Script[pc].op = op

Advance == pc' = pc + 1 /\ UNCHANGED <<built, text, bodyAnchor>>

KeepToc == UNCHANGED <<num, title, tocAnchor>>

RunAddCover ==
    At("add_cover") /\ DirectAppend(Flowable("Cover", nextId, <<>>, "geometric", 0, <<>>))
                    /\ Advance /\ KeepToc

RunAppendTocTitle ==
    At("append_toc_title") /\ DirectAppend(Paragraph(nextId, <<"T", "a", "b", "l", "e", " ", "o", "f", " ", "C", "o", "n", "t", "e", "n", "t", "s">>, "h1"))
                           /\ Advance /\ KeepToc

RunAppendAccentBar ==
    At("append_AccentBar") /\ DirectAppend(AccentBar(nextId)) /\ Advance /\ KeepToc

RunAppendSpacer ==
    At("append_Spacer") /\ DirectAppend(Spacer(nextId, Script[pc].n)) /\ Advance /\ KeepToc

RunTocRow == At("toc_row") /\ toc_row(Script[pc].n) /\ Advance

RunAppendPageBreak ==
    At("append_PageBreak") /\ DirectAppend(PageBreak(nextId)) /\ Advance /\ KeepToc

RunAppendSec1 ==
    At("append_sec_1") /\ DirectAppend(Paragraph(nextId, Sec1Text, "h1")) /\ Advance /\ KeepToc

RunAddSeverityBadges ==
    At("add_severity_badges")
        /\ DirectAppend(Flowable("SeverityBadges", nextId, <<>>, "", 0, <<>>))
        /\ Advance /\ KeepToc

RunSectionHeading == At("section_heading") /\ section_heading(Script[pc].text) /\ Advance /\ KeepToc

RunSubHeading == At("sub_heading") /\ sub_heading(Script[pc].text) /\ Advance /\ KeepToc

RunSubSubHeading == At("sub_sub_heading") /\ sub_sub_heading(Script[pc].text) /\ Advance /\ KeepToc

RunBody == At("body") /\ body /\ Advance /\ KeepToc

RunSpacer == At("spacer") /\ spacer(Script[pc].n) /\ Advance /\ KeepToc

RunAnalogy == At("analogy") /\ analogy /\ Advance /\ KeepToc

RunInfoBox == At("info_box") /\ info_box /\ Advance /\ KeepToc

RunWarningBox == At("warning_box") /\ warning_box /\ Advance /\ KeepToc

RunCriticalBox == At("critical_box") /\ critical_box /\ Advance /\ KeepToc

RunCode == At("code") /\ code /\ Advance /\ KeepToc

RunTable == At("table") /\ table /\ Advance /\ KeepToc

RunStepIndicator == At("step_indicator") /\ step_indicator /\ Advance /\ KeepToc

RunFinalFlush == At("finalize") /\ finalize /\ Advance /\ KeepToc

\* variant: the renderer receives story where the final flush is due
RunBuildDocument_BeforeFlush ==
    /\ At("finalize")
    /\ built' = TRUE
    /\ pc' = pc + 1
    /\ UNCHANGED <<story, _pending_heading, calls, nextId, anchorVars>>

\* line 2665: the renderer receives story
RunBuildDocument ==
    /\ At("build_document")
    /\ built' = TRUE
    /\ pc' = pc + 1
    /\ UNCHANGED <<story, _pending_heading, calls, nextId, anchorVars>>

InitScript ==
    /\ story = <<>>
    /\ _pending_heading = <<>>
    /\ calls = <<>>
    /\ nextId = 1
    /\ pc = 1
    /\ built = FALSE
    /\ AnchorIdle

NextScript ==
    \/ RunAddCover
    \/ RunAppendTocTitle
    \/ RunAppendAccentBar
    \/ RunAppendSpacer
    \/ RunTocRow
    \/ RunAppendPageBreak
    \/ RunAppendSec1
    \/ RunAddSeverityBadges
    \/ RunSectionHeading
    \/ RunSubHeading
    \/ RunSubSubHeading
    \/ RunBody
    \/ RunSpacer
    \/ RunAnalogy
    \/ RunInfoBox
    \/ RunWarningBox
    \/ RunCriticalBox
    \/ RunCode
    \/ RunTable
    \/ RunStepIndicator
    \/ RunFinalFlush
    \/ RunBuildDocument

SpecScript == InitScript /\ [][NextScript]_vars

\* ------------------------------------------------------------------------
\* SpecAnchor: the two anchor computations on inputs from bounded sets
\* ------------------------------------------------------------------------
TitleChars == {"1", ".", " ", "a", "B", "<", ">", "-"}

RECURSIVE SeqsUpTo(_, _)
SeqsUpTo(chars, n) ==
    IF n = 0 THEN {<<>>}
    ELSE LET shorter == SeqsUpTo(chars, n - 1)
         IN  shorter \cup {Append(s, c) : s \in shorter, c \in chars}

Titles == SeqsUpTo(TitleChars, MaxLen)

Nums == { <<"2", ".">>, <<"2", ".", "1">>, <<"1", "0", ".">>, <<"2">>, <<"2", ".", "1", ".">>, <<"1", "0", ".", "3", ".", "4">>, <<"A", ".">>, <<"B", ".">>, <<"A">> }

\* the heading text the script's convention gives a numbered entry, an
\* appendix entry and an unnumbered heading
NumberedHeading(n, ttl) == n \o <<" ">> \o ttl

AppendixHeading(n, ttl) == <<"A", "p", "p", "e", "n", "d", "i", "x", " ">> \o RStrip(n, {"."}) \o <<":", " ">> \o ttl

\* a heading whose title is set in bold right after the number
BoldHeading(n, ttl) == n \o <<"<", "b", ">">> \o ttl \o <<"<", "/", "b", ">">>

HeadingForms(n, ttl) ==
    {ttl, NumberedHeading(n, ttl), AppendixHeading(n, ttl), BoldHeading(n, ttl)}

\* the heading texts of lines 74, 315 and 317, and one without numbering
ExampleTexts == { <<"2", ".", "1", " ", "T", "h", "e", " ", "Q", "u", "a", "n", "t", "u", "m", " ", "T", "h", "r", "e", "a", "t">>, <<"2", ".", " ", "I", "n", "t", "r", "o", "d", "u", "c", "t", "i", "o", "n">>,
                  <<"2", ".", "1", " ", "T", "h", "e", " ", "Q", "u", "a", "n", "t", "u", "m", " ", "T", "h", "r", "e", "a", "t", " ", "t", "o", " ", "T", "h", "r", "e", "s", "h", "o", "l", "d", " ", "S", "i", "g", "n", "a", "t", "u", "r", "e", "s">>,
                  <<"N", "o", " ", "N", "u", "m", "b", "e", "r", "i", "n", "g", " ", "H", "e", "r", "e", " ", "A", "t", " ", "A", "l", "l">> }

InitAnchor ==
    /\ ComposerInit
    /\ num \in Nums
    /\ title \in Titles
    /\ text \in HeadingForms(num, title) \cup (IF title = <<>> THEN ExampleTexts ELSE {})
    /\ bodyAnchor = NoAnchor
    /\ tocAnchor = NoAnchor

\* a heading operation derives the anchor of its text (lines 86, 97, 107)
DeriveBodyAnchor ==
    /\ bodyAnchor = NoAnchor
    /\ bodyAnchor' = _make_anchor(text)
    /\ UNCHANGED <<composerVars, text, num, title, tocAnchor>>

\* the table of contents loop derives the anchor of its entry (lines 242-246)
DeriveTocAnchor ==
    /\ tocAnchor = NoAnchor
    /\ tocAnchor' = TocAnchor(num)
    /\ UNCHANGED <<composerVars, text, num, title, bodyAnchor>>

NextAnchor == DeriveBodyAnchor \/ DeriveTocAnchor

SpecAnchor == InitAnchor /\ [][NextAnchor]_vars

\* ------------------------------------------------------------------------
\* Vocabulary of the properties
\* ------------------------------------------------------------------------
HeadingOps == {"section_heading", "sub_heading", "sub_sub_heading"}

ContentOps == {"body", "body_small", "analogy", "info_box", "warning_box",
               "critical_box", "code", "table", "step_indicator"}

ContentKinds == {"Paragraph", "CalloutBox", "CodeBlock", "CardTable", "StepIndicator"}

IsGroup(e) == e.kind = "KeepTogether"

\* the stream with every keep-together group replaced by its members
RECURSIVE FlattenFrom(_, _)
FlattenFrom(st, k) ==
    IF k > Len(st) THEN <<>>
    ELSE (IF IsGroup(st[k]) THEN st[k].items ELSE <<st[k]>>) \o FlattenFrom(st, k + 1)

Flatten(st) == FlattenFrom(st, 1)

\* the flowables of the stream, members of groups included
BlocksOf(st) ==
    UNION {IF IsGroup(st[k]) THEN {st[k].items[j] : j \in 1..Len(st[k].items)} ELSE {st[k]}
           : k \in 1..Len(st)}

IdsOf(blocks) == [k \in 1..Len(blocks) |-> blocks[k].id]

Range(s) == {s[k] : k \in 1..Len(s)}

Occurrences(id, blocks) == Cardinality({k \in 1..Len(blocks) : blocks[k].id = id})

\* identities of the flowables that are stream entries of their own
UngroupedIds(st) == {st[k].id : k \in {j \in 1..Len(st) : ~IsGroup(st[j])}}

\* the keep-together groups of the stream
GroupsOf(st) == {st[k] : k \in {j \in 1..Len(st) : IsGroup(st[j])}}

LastCall == calls[Len(calls)]

\* the decorations a heading call constructed, and those of them it buffered
DecorationIds(call) == call.ids

BufferedIds(call) == IF call.op = "section_heading" THEN Tail(call.ids) ELSE call.ids

\* the step is a call of one of the operations in ops
Called(ops) == Len(calls') = Len(calls) + 1 /\ calls'[Len(calls')].op \in ops

\* the anchor a heading paragraph carries, the text it shows, and the
\* anchor a table of contents row links to
NameOpen == <<"<", "a", " ", "n", "a", "m", "e", "=", "\"">>

HrefOpen == <<"<", "a", " ", "h", "r", "e", "f", "=", "\"", "#">>

UpTo(s, c) == SubSeq(s, 1, Span(s, 1, Range(s) \ {c}))

After(s, c) == SubSeq(s, Len(UpTo(s, c)) + 2, Len(s))

IsAnchored(p) == p.kind = "Paragraph" /\ StartsWith(p.text, NameOpen)

NameOf(p) == UpTo(SubSeq(p.text, Len(NameOpen) + 1, Len(p.text)), "\"")

ShownText(p) == SubSeq(p.text, Len(NameOpen) + Len(NameOf(p)) + 4, Len(p.text))

IsTocRow(p) == p.kind = "Paragraph" /\ p.style \in {"te", "ts"}

HrefOf(p) == UpTo(SubSeq(p.text, Len(HrefOpen) + 1, Len(p.text)), "\"")

\* the number a table of contents row shows: the text of its first link
NumOf(p) == UpTo(After(p.text, ">"), "<")

\* the number a heading text leads with: its first word without trailing
\* dots, or the letter after the word Appendix
LeadingNumber(t) ==
    LET w == Split(t)
    IN  IF w = <<>> THEN <<>>
        ELSE IF w[1] = AppendixWord /\ Len(w) >= 2 THEN <<w[2][1]>>
        ELSE RStrip(w[1], {"."})

\* ------------------------------------------------------------------------
\* C1  Anchor agreement.  In the run of the script, whenever the stream
\* holds the table of contents row of an entry and an anchored heading
\* whose text leads with that entry's number (or Appendix letter), the
\* anchor the row links to is the anchor the heading carries, and for a
\* heading issued through the composer it is _make_anchor of the heading
\* text; for section 1 it is the hand-written sec_1.
\* ------------------------------------------------------------------------
\* <<anchor linked to, number without trailing dots>> of every row
RowKeys ==
    {<<HrefOf(r), RStrip(NumOf(r), {"."})>> : r \in {b \in BlocksOf(story) : IsTocRow(b)}}

\* <<anchor carried, leading number, text shown>> of every anchored heading
HeadingKeys ==
    {<<NameOf(p), LeadingNumber(ShownText(p)), ShownText(p)>>
        : p \in {b \in BlocksOf(story) : IsAnchored(b)}}

ComposerHeadingTexts == {calls[k].text : k \in {j \in 1..Len(calls) : calls[j].op \in HeadingOps}}

C1_AnchorAgreement ==
    LET rows == RowKeys
        headings == HeadingKeys
        issued == ComposerHeadingTexts
    IN  \A r \in rows : \A p \in headings :
            r[2] = p[2] =>
                /\ r[1] = p[1]
                /\ p[3] \in issued => r[1] = _make_anchor(p[3])
                /\ p[3] \notin issued => r[1] = <<"s", "e", "c", "_", "1">>

\* the script has run to its end and every row of the table of contents
\* has a heading with its number in the stream
C1_Witness ==
    /\ built
    /\ Cardinality(RowKeys) = Len(toc_entries)
    /\ \A r \in RowKeys : \E p \in HeadingKeys : r[2] = p[2]
    /\ <<<<"s", "e", "c", "_", "A", "p", "p", "e", "n", "d", "i", "x", "_", "B">>, <<"B">>>> \in RowKeys
    /\ <<<<"s", "e", "c", "_", "1">>, <<"1">>>> \in RowKeys

\* ------------------------------------------------------------------------
\* Heading calls and the call that follows them
\* ------------------------------------------------------------------------
\* the heading calls that have a next call
FollowedHeadings == {i \in 1..(Len(calls) - 1) : calls[i].op \in HeadingOps}

\* some keep-together group of the stream holds every one of ids
InOneGroup(ids) == \E g \in GroupsOf(story) : ids \subseteq Range(IdsOf(g.items))

\* ------------------------------------------------------------------------
\* C2 (as stated)  Keep-together invariant: all of a heading's decorations
\* and the first content block called right after it are members of one
\* keep-together group; when a heading, spacer or finalize call came
\* first, all of the heading's decorations are ungrouped stream entries.
\* ------------------------------------------------------------------------
C2_Original ==
    \A i \in FollowedHeadings :
        IF calls[i + 1].op \in ContentOps
        THEN InOneGroup(Range(DecorationIds(calls[i])) \cup Range(calls[i + 1].ids))
        ELSE Range(DecorationIds(calls[i])) \subseteq UngroupedIds(story)

\* ------------------------------------------------------------------------
\* C2 (amended)  The decorations a heading buffered (for a level-1 heading
\* all but its page break) and the first content block called right after
\* it are members of one keep-together group, while a level-1 heading's
\* page break is an ungrouped stream entry; when a heading, spacer or
\* finalize call came first, all of the heading's decorations are
\* ungrouped stream entries.
\* ------------------------------------------------------------------------
C2_KeepTogether ==
    \A i \in FollowedHeadings :
        IF calls[i + 1].op \in ContentOps
        THEN /\ InOneGroup(Range(BufferedIds(calls[i])) \cup Range(calls[i + 1].ids))
             /\ Range(DecorationIds(calls[i])) \ Range(BufferedIds(calls[i]))
                    \subseteq UngroupedIds(story)
        ELSE Range(DecorationIds(calls[i])) \subseteq UngroupedIds(story)

\* a level-1 heading bonded to the content block called right after it
C2_Witness ==
    /\ Len(calls) >= 3
    /\ calls[1].op = "section_heading"
    /\ calls[2].op \in ContentOps
    /\ calls[3].op \in HeadingOps \cup ContentOps
    /\ Cardinality(GroupsOf(story)) = 1
    /\ InOneGroup(Range(BufferedIds(calls[1])) \cup Range(calls[2].ids))

\* ------------------------------------------------------------------------
\* C3  No loss, no duplication: when the last call is finalize, every
\* flowable constructed by any call occurs exactly once in the stream,
\* members of keep-together groups counted.
\* ------------------------------------------------------------------------
C3_NoLossNoDuplication ==
    (calls # <<>> /\ LastCall.op = "finalize") =>
        LET flat == Flatten(story)
        IN  /\ \A i \in 1..Len(calls) : \A id \in Range(calls[i].ids) :
                  Occurrences(id, flat) = 1
            /\ Len(flat) = nextId - 1

\* finalize after a heading that no content followed and that itself
\* followed a level-1 heading
C3_Witness ==
    /\ Len(calls) >= 3
    /\ LastCall.op = "finalize"
    /\ calls[Len(calls) - 1].op \in HeadingOps
    /\ calls[Len(calls) - 2].op = "section_heading"
    /\ Len(Flatten(story)) = nextId - 1
    /\ nextId > 7

\* ------------------------------------------------------------------------
\* C4 (as stated)  After section_heading(X); content(P) on a fresh
\* composer the stream has exactly one entry, a keep-together group of all
\* of X's decorations followed by P.
\* ------------------------------------------------------------------------
HeadingThenContent ==
    /\ Len(calls) = 2
    /\ calls[1].op = "section_heading"
    /\ calls[2].op \in ContentOps

C4_Original ==
    HeadingThenContent =>
        /\ Len(story) = 1
        /\ IsGroup(story[1])
        /\ IdsOf(story[1].items) = DecorationIds(calls[1]) \o calls[2].ids

\* ------------------------------------------------------------------------
\* C4 (amended)  After section_heading(X); content(P) on a fresh composer
\* the stream has exactly two entries: X's page break, then one
\* keep-together group holding X's anchored title, divider and spacer
\* followed by P.
\* ------------------------------------------------------------------------
C4_HeadingThenContent ==
    HeadingThenContent =>
        /\ Len(story) = 2
        /\ story[1].kind = "PageBreak"
        /\ story[1].id = DecorationIds(calls[1])[1]
        /\ IsGroup(story[2])
        /\ IdsOf(story[2].items) = Tail(DecorationIds(calls[1])) \o calls[2].ids
        /\ [k \in 1..3 |-> story[2].items[k].kind] = <<"Paragraph", "AccentBar", "Spacer">>
        /\ story[2].items[1].text = AnchoredText(_make_anchor(calls[1].text), calls[1].text)
        /\ story[2].items[4].kind \in ContentKinds
        /\ _pending_heading = <<>>

C4_Witness == HeadingThenContent /\ calls[2].op = "body" /\ Len(story) = 2

\* ------------------------------------------------------------------------
\* C5  A heading call made while a heading is pending appends the buffered
\* decorations of the pending heading to the stream as entries of their
\* own, none of them a keep-together group, and leaves in the buffer only
\* decorations of the new heading.
\* ------------------------------------------------------------------------
C5_HeadingWhilePending ==
    [][(Called(HeadingOps) /\ _pending_heading # <<>>) =>
          /\ Len(story') >= Len(story) + Len(_pending_heading)
          /\ SubSeq(story', 1, Len(story) + Len(_pending_heading))
                = story \o _pending_heading
          /\ \A k \in 1..Len(_pending_heading) : ~IsGroup(_pending_heading[k])
          /\ _pending_heading' # <<>>
          /\ Range(IdsOf(_pending_heading')) \subseteq Range(calls'[Len(calls')].ids)
      ]_vars

\* two heading calls in a row: the first heading is in the stream, the
\* second in the buffer
C5_Witness ==
    /\ Len(calls) >= 2
    /\ calls[Len(calls) - 1].op \in HeadingOps
    /\ LastCall.op \in HeadingOps
    /\ Range(BufferedIds(calls[Len(calls) - 1])) \subseteq UngroupedIds(story)
    /\ IdsOf(_pending_heading) = BufferedIds(LastCall)

\* ------------------------------------------------------------------------
\* C6  finalize appends the buffered decorations of a pending heading to
\* the stream, once, and empties the buffer; with an empty buffer, and so
\* when it is repeated, it appends nothing.
\* ------------------------------------------------------------------------
C6_Finalize ==
    [][Called({"finalize"}) =>
          /\ story' = story \o _pending_heading
          /\ _pending_heading' = <<>>
          /\ _pending_heading = <<>> => story' = story
          /\ (calls # <<>> /\ LastCall.op = "finalize") => story' = story
          /\ \A b \in Range(_pending_heading) : Occurrences(b.id, Flatten(story')) = 1
      ]_vars

\* heading; finalize; finalize: the stream holds the heading's buffered
\* decorations once
C6_Witness ==
    /\ Len(calls) >= 3
    /\ calls[Len(calls) - 2].op \in HeadingOps
    /\ calls[Len(calls) - 1].op = "finalize"
    /\ LastCall.op = "finalize"
    /\ \A id \in Range(calls[Len(calls) - 2].ids) : Occurrences(id, story) = 1
    /\ _pending_heading = <<>>

\* ------------------------------------------------------------------------
\* C7  spacer(h) appends the buffered decorations of a pending heading
\* as entries of their own, then one Spacer of height h as the last
\* stream entry, and leaves the buffer empty; in every state every Spacer
\* constructed by a spacer call is an ungrouped stream entry.
\* ------------------------------------------------------------------------
SpacerCallIds == UNION {Range(calls[k].ids) : k \in {j \in 1..Len(calls) : calls[j].op = "spacer"}}

SpacersUngrouped ==
    /\ SpacerCallIds \subseteq UngroupedIds(story)
    /\ \A g \in GroupsOf(story) : Range(IdsOf(g.items)) \cap SpacerCallIds = {}

C7_ExplicitSpacer ==
    [][/\ Called({"spacer"}) =>
            /\ Len(story') = Len(story) + Len(_pending_heading) + 1
            /\ SubSeq(story', 1, Len(story') - 1) = story \o _pending_heading
            /\ story'[Len(story')].kind = "Spacer"
            /\ story'[Len(story')].h = calls'[Len(calls')].h
            /\ <<story'[Len(story')].id>> = calls'[Len(calls')].ids
            /\ _pending_heading' = <<>>
       /\ SpacersUngrouped'
      ]_vars

\* a spacer called while a heading was pending, and a content block after
C7_Witness ==
    /\ Len(calls) >= 3
    /\ calls[Len(calls) - 2].op \in HeadingOps
    /\ calls[Len(calls) - 1].op = "spacer"
    /\ LastCall.op \in ContentOps
    /\ SpacersUngrouped
    /\ GroupsOf(story) = {}

\* ------------------------------------------------------------------------
\* C8  The buffer is empty or holds the decorations that one heading call
\* buffered, and nothing of any other heading: after a heading call it
\* holds exactly what that call buffered (so the call emptied it first),
\* after a content, spacer or finalize call, and before any call, it is
\* empty.
\* ------------------------------------------------------------------------
C8_OneHeadingBuffered ==
    IF calls # <<>> /\ LastCall.op \in HeadingOps
    THEN /\ _pending_heading # <<>>
         /\ IdsOf(_pending_heading) = BufferedIds(LastCall)
         /\ Cardinality({b \in Range(_pending_heading) : IsAnchored(b)}) = 1
    ELSE _pending_heading = <<>>

\* a heading buffered right after another heading
C8_Witness ==
    /\ Len(calls) >= 2
    /\ calls[Len(calls) - 1].op \in HeadingOps
    /\ LastCall.op \in HeadingOps
    /\ Len(_pending_heading) = 3

\* ------------------------------------------------------------------------
\* C9  A content operation appends exactly one stream entry and leaves the
\* buffer empty: with a heading pending the entry is a keep-together group
\* of the buffered blocks followed by the content block, with the buffer
\* empty it is the content block itself.
\* ------------------------------------------------------------------------
KindOfContent(op) ==
    CASE op \in {"body", "body_small"} -> "Paragraph"
      [] op \in {"analogy", "info_box", "warning_box", "critical_box"} -> "CalloutBox"
      [] op = "code" -> "CodeBlock"
      [] op = "table" -> "CardTable"
      [] op = "step_indicator" -> "StepIndicator"

IsContentOf(b, call) == <<b.id>> = call.ids /\ b.kind = KindOfContent(call.op)

C9_Content ==
    [][Called(ContentOps) =>
          LET entry == story'[Len(story')]
              call == calls'[Len(calls')]
          IN  /\ Len(story') = Len(story) + 1
              /\ SubSeq(story', 1, Len(story)) = story
              /\ _pending_heading' = <<>>
              /\ IF _pending_heading # <<>>
                 THEN /\ IsGroup(entry)
                      /\ Len(entry.items) = Len(_pending_heading) + 1
                      /\ SubSeq(entry.items, 1, Len(_pending_heading)) = _pending_heading
                      /\ IsContentOf(entry.items[Len(entry.items)], call)
                 ELSE IsContentOf(entry, call)
      ]_vars

\* a step indicator bonded to a heading and a content block on its own
C9_Witness ==
    /\ Len(calls) >= 3
    /\ calls[Len(calls) - 2].op \in HeadingOps
    /\ calls[Len(calls) - 1].op = "step_indicator"
    /\ LastCall.op \in ContentOps
    /\ IsGroup(story[Len(story) - 1])
    /\ ~IsGroup(story[Len(story)])
    /\ _pending_heading = <<>>

\* ------------------------------------------------------------------------
\* C10  For an appendix entry numbered "A." or "B.", whatever the title,
\* the anchor _make_anchor derives from "Appendix L: <title>" and the
\* anchor the table of contents loop gives the entry are both
\* "sec_Appendix_L".
\* ------------------------------------------------------------------------
AppendixNums == { <<"A", ".">>, <<"B", ".">> }

AppendixCase ==
    /\ num \in AppendixNums
    /\ text = <<"A", "p", "p", "e", "n", "d", "i", "x", " ">> \o <<num[1]>> \o <<":", " ">> \o title

C10_AppendixAgreement ==
    AppendixCase =>
        /\ bodyAnchor # NoAnchor => bodyAnchor = <<"s", "e", "c", "_", "A", "p", "p", "e", "n", "d", "i", "x", "_">> \o <<num[1]>>
        /\ tocAnchor # NoAnchor => tocAnchor = <<"s", "e", "c", "_", "A", "p", "p", "e", "n", "d", "i", "x", "_">> \o <<num[1]>>
        /\ (bodyAnchor # NoAnchor /\ tocAnchor # NoAnchor) => bodyAnchor = tocAnchor

\* both anchors derived for Appendix B with a title that holds markup
C10_Witness ==
    /\ AppendixCase
    /\ num = <<"B", ".">>
    /\ Len(title) = MaxLen
    /\ "<" \in Range(title)
    /\ bodyAnchor # NoAnchor
    /\ bodyAnchor = tocAnchor

\* ------------------------------------------------------------------------
\* Vocabulary of the anchor properties
\* ------------------------------------------------------------------------
BothDerived == bodyAnchor # NoAnchor /\ tocAnchor # NoAnchor

\* a number token: digits and dots, the first of them a digit
IsNumberToken(n) ==
    /\ n # <<>>
    /\ n[1] \in Digits
    /\ \A k \in 1..Len(n) : n[k] \in Digits \cup {"."}

\* a number token that has a dot right after its leading digits
IsDottedToken(n) ==
    /\ IsNumberToken(n)
    /\ \E k \in 2..Len(n) : n[k] = "." /\ \A j \in 1..(k - 1) : n[j] \in Digits

\* ------------------------------------------------------------------------
\* C11 (as stated)  For every number token (digits and dots, with or
\* without a trailing dot) and every title, the anchor of the table of
\* contents loop equals _make_anchor(number + " " + title).
\* ------------------------------------------------------------------------
C11_Original ==
    (IsNumberToken(num) /\ text = NumberedHeading(num, title) /\ BothDerived)
        => tocAnchor = bodyAnchor

\* ------------------------------------------------------------------------
\* C11 (amended)  For every number token that has a dot after its leading
\* digits ("2.", "2.1", "2.1.", "10.3.4") and every title, the anchor of
\* the table of contents loop equals _make_anchor(number + " " + title).
\* ------------------------------------------------------------------------
C11_SameNormalization ==
    (IsDottedToken(num) /\ text = NumberedHeading(num, title) /\ BothDerived)
        => tocAnchor = bodyAnchor

\* both anchors derived for a three-level number and a title that begins
\* with a digit
C11_Witness ==
    /\ num = <<"1", "0", ".", "3", ".", "4">>
    /\ Len(title) = MaxLen
    /\ title[1] = "1"
    /\ text = NumberedHeading(num, title)
    /\ BothDerived
    /\ tocAnchor = <<"s", "e", "c", "_", "1", "0", "_", "3", "_", "4">>
    /\ bodyAnchor = tocAnchor

\* the length of the dotted numeral token s starts with: digits, a dot,
\* then further digits and dots; 0 when s starts with no such token
DottedTokenLen(s) ==
    IF \E k \in 2..Len(s) : s[k] = "." /\ \A j \in 1..(k - 1) : s[j] \in Digits
    THEN CHOOSE m \in 1..Len(s) :
            /\ \A j \in 1..m : s[j] \in Digits \cup {"."}
            /\ (m = Len(s) \/ s[m + 1] \notin Digits \cup {"."})
    ELSE 0

\* "sec_", then the token without its trailing dots and with "_" for each
\* dot that is left
AnchorOfToken(token) == SecPrefix \o Replace(RStrip(token, {"."}), ".", <<"_">>)

QuantumThreat == <<"2", ".", "1", " ", "T", "h", "e", " ", "Q", "u", "a", "n", "t", "u", "m", " ", "T", "h", "r", "e", "a", "t">>

Introduction == <<"2", ".", " ", "I", "n", "t", "r", "o", "d", "u", "c", "t", "i", "o", "n">>

\* ------------------------------------------------------------------------
\* C12 (as stated)  For every heading text that starts with a dotted
\* numeral token, _make_anchor returns "sec_" followed by that token with
\* its trailing dot trimmed and each interior dot replaced by "_",
\* whatever follows the token.
\* ------------------------------------------------------------------------
C12_Original ==
    (bodyAnchor # NoAnchor /\ DottedTokenLen(text) > 0)
        => bodyAnchor = AnchorOfToken(SubSeq(text, 1, DottedTokenLen(text)))

\* ------------------------------------------------------------------------
\* C12 (amended)  For every heading text that, once its inline markup tags
\* are removed, starts with a dotted numeral token, _make_anchor returns
\* "sec_" followed by that token with all its trailing dots trimmed and
\* each interior dot replaced by "_", whatever follows the token; "2.1 The
\* Quantum Threat" gives "sec_2_1" and "2. Introduction" gives "sec_2".
\* ------------------------------------------------------------------------
C12_NumberedAnchor ==
    LET clean == StripTags(text)
        m == DottedTokenLen(clean)
    IN  bodyAnchor # NoAnchor =>
            /\ m > 0 => bodyAnchor = AnchorOfToken(SubSeq(clean, 1, m))
            /\ text = QuantumThreat => bodyAnchor = <<"s", "e", "c", "_", "2", "_", "1">>
            /\ text = Introduction => bodyAnchor = <<"s", "e", "c", "_", "2">>

\* the anchor of "2. Introduction" has been derived
C12_Witness == text = Introduction /\ bodyAnchor = <<"s", "e", "c", "_", "2">>

\* ------------------------------------------------------------------------
\* Vocabulary of the word fallback
\* ------------------------------------------------------------------------
AlphaNumeric == Lower \cup Upper \cup Digits

\* s starts with no numbering token: neither a dotted numeral nor
\* "Appendix <letter>." / "Appendix <letter>:"
NoNumbering(s) == DottedTokenLen(s) = 0 /\ AppendixMatchLen(s) = 0

\* the first four words of s (all of them when there are fewer), after
\* removing every character that is neither alphanumeric nor whitespace,
\* lower-cased and joined by "_": the kept characters from the first word
\* to the end of the fourth, each whitespace run counted as one "_"
FirstFourWords(s) ==
    LET kept == SelectSeq(s, LAMBDA c : c \in AlphaNumeric \cup Whitespace)
        inWord == {i \in 1..Len(kept) : kept[i] \notin Whitespace}
        ends == {i \in inWord : i = Len(kept) \/ kept[i + 1] \in Whitespace}
        first == CHOOSE i \in inWord : \A j \in inWord : i <= j
        last == IF Cardinality(ends) >= 4
                THEN CHOOSE e \in ends : Cardinality({x \in ends : x <= e}) = 4
                ELSE CHOOSE e \in ends : \A x \in ends : x <= e
        shown == {i \in first..last : i \in inWord \/ (i - 1) \in inWord}
        pos == [k \in 1..Cardinality(shown) |->
                   CHOOSE i \in shown : Cardinality({x \in shown : x <= i}) = k]
    IN  IF inWord = {} THEN <<>>
        ELSE [k \in 1..Cardinality(shown) |->
                 IF kept[pos[k]] \in Whitespace THEN "_" ELSE LowerChar(kept[pos[k]])]

NoNumberingHere == <<"N", "o", " ", "N", "u", "m", "b", "e", "r", "i", "n", "g", " ", "H", "e", "r", "e", " ", "A", "t", " ", "A", "l", "l">>

\* ------------------------------------------------------------------------
\* C13 (as stated)  For every heading text with no leading numbering
\* token, _make_anchor returns "sec_" followed by the first four words of
\* the text, after removing every character that is not alphanumeric or
\* whitespace, each word lower-cased and the words joined by "_".
\* ------------------------------------------------------------------------
C13_Original ==
    (bodyAnchor # NoAnchor /\ NoNumbering(text))
        => bodyAnchor = SecPrefix \o FirstFourWords(text)

\* ------------------------------------------------------------------------
\* C13 (amended)  For every heading text that, once its inline markup tags
\* are removed, has no leading numbering token, _make_anchor returns "sec_"
\* followed by the first four words of the tag-free text (all of them when
\* there are fewer than four), after removing every character that is not
\* alphanumeric or whitespace, each word lower-cased and the words joined
\* by "_"; "No Numbering Here At All" gives "sec_no_numbering_here_at".
\* ------------------------------------------------------------------------
C13_WordFallback ==
    LET clean == StripTags(text)
    IN  bodyAnchor # NoAnchor =>
            /\ NoNumbering(clean) => bodyAnchor = SecPrefix \o FirstFourWords(clean)
            /\ text = NoNumberingHere => bodyAnchor = <<"s", "e", "c", "_", "n", "o", "_", "n", "u", "m", "b", "e", "r", "i", "n", "g", "_", "h", "e", "r", "e", "_", "a", "t">>

\* the anchor of a heading of five words has been derived from four
C13_Witness ==
    /\ text = NoNumberingHere
    /\ NoNumbering(text)
    /\ bodyAnchor = <<"s", "e", "c", "_", "n", "o", "_", "n", "u", "m", "b", "e", "r", "i", "n", "g", "_", "h", "e", "r", "e", "_", "a", "t">>

\* ------------------------------------------------------------------------
\* C14  Anchor derivation is total: for every input string, the empty
\* string, text made only of markup tags and text with no alphanumeric
\* character included, the anchor _make_anchor returns, before and after
\* the call, is a string that begins with "sec_"; for text that matches no numbering pattern the
\* rest of the anchor is made of lower-case words joined by "_".
\* ------------------------------------------------------------------------
C14_Total ==
    LET anchor == IF bodyAnchor = NoAnchor THEN _make_anchor(text) ELSE bodyAnchor
    IN  /\ StartsWith(anchor, SecPrefix)
        /\ MatchLen(StripTags(text)) = 0 =>
              \A k \in (Len(SecPrefix) + 1)..Len(anchor) :
                  anchor[k] \in Lower \cup Digits \cup {"_"}

\* the anchor of a text made only of a markup tag is the bare prefix
C14_Witness ==
    /\ text = <<"<", "a", ">">>
    /\ StripTags(text) = <<>>
    /\ bodyAnchor = SecPrefix

\* ------------------------------------------------------------------------
\* Table of contents rows and the headings constructed after them
\* ------------------------------------------------------------------------
\* identities of the flowables the heading operations constructed
HeadingCallIds ==
    UNION {Range(calls[k].ids) : k \in {j \in 1..Len(calls) : calls[j].op \in HeadingOps}}

\* <<anchor linked to, number without trailing dots, identity>> of every row
RowTargets ==
    {<<HrefOf(r), RStrip(NumOf(r), {"."}), r.id>>
        : r \in {b \in BlocksOf(story) : IsTocRow(b)}}

\* <<anchor carried, leading number, identity>> of every anchored heading
\* of the stream
AnchoredHeadings ==
    {<<NameOf(p), LeadingNumber(ShownText(p)), p.id>>
        : p \in {b \in BlocksOf(story) : IsAnchored(b)}}

\* the heading h matches the row r, carries the anchor r links to and was
\* constructed after r
Targets(r, h) == h[1] = r[1] /\ h[2] = r[2] /\ h[3] > r[3]

\* ------------------------------------------------------------------------
\* C15 (as stated)  Every anchor targeted by a link of the table of
\* contents is an anchor that a heading operation of the composer
\* (section_heading, sub_heading, sub_sub_heading) generates later in the
\* build for the matching heading.
\* ------------------------------------------------------------------------
C15_Original ==
    built =>
        LET rows == RowTargets
            issued == HeadingCallIds
            generated == {h \in AnchoredHeadings : h[3] \in issued}
        IN  \A r \in rows : \E h \in generated : Targets(r, h)

\* ------------------------------------------------------------------------
\* C15 (amended)  Every anchor targeted by a link of the table of
\* contents, the one of entry 1 excepted, is an anchor that a heading
\* operation of the composer generates later in the build for the
\* matching heading; the anchor of entry 1, sec_1, is carried by the
\* heading that the script writes by hand and appends to the stream later
\* in the build, and no heading operation generates it.
\* ------------------------------------------------------------------------
C15_TargetsGeneratedLater ==
    built =>
        LET rows == RowTargets
            issued == HeadingCallIds
            anchored == AnchoredHeadings
            generated == {h \in anchored : h[3] \in issued}
            byHand == anchored \ generated
        IN  \A r \in rows :
                IF r[2] = <<"1">>
                THEN /\ r[1] = <<"s", "e", "c", "_", "1">>
                     /\ \E h \in byHand : Targets(r, h)
                     /\ \A h \in generated : h[1] # r[1]
                ELSE \E h \in generated : Targets(r, h)

\* the script has run: every entry has its row, and the rows of entry 2.1
\* and of Appendix A link to headings that heading operations constructed
C15_Witness ==
    /\ built
    /\ Cardinality(RowTargets) = Len(toc_entries)
    /\ \E r \in RowTargets : \E h \in AnchoredHeadings :
          r[1] = <<"s", "e", "c", "_", "2", "_", "1">> /\ Targets(r, h) /\ h[3] \in HeadingCallIds
    /\ \E r \in RowTargets : \E h \in AnchoredHeadings :
          r[1] = <<"s", "e", "c", "_", "A", "p", "p", "e", "n", "d", "i", "x", "_", "A">> /\ Targets(r, h) /\ h[3] \in HeadingCallIds

\* ------------------------------------------------------------------------
\* Vocabulary of the heading operations
\* ------------------------------------------------------------------------
KindsOf(blocks) == [k \in 1..Len(blocks) |-> blocks[k].kind]

\* p is the title of the heading call: its text behind its derived anchor
IsTitleOf(p, call, style) ==
    /\ p.kind = "Paragraph"
    /\ p.style = style
    /\ p.text = AnchoredText(_make_anchor(call.text), call.text)

LevelStyle(op) ==
    CASE op = "section_heading" -> "h1"
      [] op = "sub_heading" -> "h2"
      [] op = "sub_sub_heading" -> "h3"

\* ------------------------------------------------------------------------
\* C16 (as stated)  A heading call appends nothing to the stream beyond
\* the unbonded flush of a previously pending heading, and leaves the
\* buffer holding exactly the decoration set of its level: for level 1
\* page break, anchored title, divider, spacer; for level 2 and 3 spacer,
\* anchored title, smaller spacer.
\* ------------------------------------------------------------------------
C16_Original ==
    [][Called(HeadingOps) =>
          /\ story' = story \o _pending_heading
          /\ KindsOf(_pending_heading') =
                IF calls'[Len(calls')].op = "section_heading"
                THEN <<"PageBreak", "Paragraph", "AccentBar", "Spacer">>
                ELSE <<"Spacer", "Paragraph", "Spacer">>
      ]_vars

\* ------------------------------------------------------------------------
\* C16 (amended)  A heading call of level 2 or 3 appends nothing to the
\* stream beyond the unbonded flush of a previously pending heading, and
\* leaves the buffer holding exactly spacer, anchored title, smaller
\* spacer; a heading call of level 1 appends, after that flush, its page
\* break to the stream and leaves the buffer holding exactly anchored
\* title, divider, spacer.
\* ------------------------------------------------------------------------
C16_HeadingEffect ==
    [][Called(HeadingOps) =>
          LET call == calls'[Len(calls')]
              buffer == _pending_heading'
          IN  /\ IdsOf(buffer) = BufferedIds(call)
              /\ IF call.op = "section_heading"
                 THEN /\ Len(story') = Len(story) + Len(_pending_heading) + 1
                      /\ SubSeq(story', 1, Len(story') - 1) = story \o _pending_heading
                      /\ story'[Len(story')].kind = "PageBreak"
                      /\ story'[Len(story')].id = DecorationIds(call)[1]
                      /\ KindsOf(buffer) = <<"Paragraph", "AccentBar", "Spacer">>
                      /\ IsTitleOf(buffer[1], call, LevelStyle(call.op))
                 ELSE /\ story' = story \o _pending_heading
                      /\ KindsOf(buffer) = <<"Spacer", "Paragraph", "Spacer">>
                      /\ IsTitleOf(buffer[2], call, LevelStyle(call.op))
                      /\ buffer[3].h < buffer[1].h
      ]_vars

\* a level 3 heading called while a level 1 heading was pending: the page
\* break and the decorations of the first are stream entries, the buffer
\* holds spacer, title, spacer of the second
C16_Witness ==
    /\ Len(calls) = 2
    /\ calls[1].op = "section_heading"
    /\ calls[2].op = "sub_sub_heading"
    /\ KindsOf(story) = <<"PageBreak", "Paragraph", "AccentBar", "Spacer">>
    /\ KindsOf(_pending_heading) = <<"Spacer", "Paragraph", "Spacer">>

\* ------------------------------------------------------------------------
\* C17  Every flush of a non-empty buffer, bonded or unbonded, appends
\* one contiguous fragment: behind the blocks the stream already held come
\* the buffered blocks in their buffered order, each once and with no
\* other block between them, and only blocks the flushing call constructed
\* come after them; a bonded flush appends them as a single group entry
\* that ends with the content block.
\* ------------------------------------------------------------------------
C17_ContiguousFlush ==
    [][(Len(calls') = Len(calls) + 1 /\ _pending_heading # <<>>) =>
          LET call == calls'[Len(calls')]
              before == Flatten(story)
              after == Flatten(story')
              n == Len(before)
              m == Len(_pending_heading)
          IN  /\ Len(after) >= n + m
              /\ SubSeq(after, 1, n) = before
              /\ SubSeq(after, n + 1, n + m) = _pending_heading
              /\ \A k \in (n + m + 1)..Len(after) : after[k].id \in Range(call.ids)
              /\ \A b \in Range(_pending_heading) : Occurrences(b.id, after) = 1
              /\ IF call.op \in ContentOps
                 THEN /\ Len(story') = Len(story) + 1
                      /\ IsGroup(story'[Len(story')])
                      /\ Len(story'[Len(story')].items) = m + 1
                      /\ <<after[Len(after)].id>> = call.ids
                 ELSE \A k \in (Len(story) + 1)..Len(story') : ~IsGroup(story'[k])
      ]_vars

\* a heading flushed unbonded by a second heading, the second flushed
\* bonded by a table
C17_Witness ==
    /\ Len(calls) = 3
    /\ calls[1].op \in HeadingOps
    /\ calls[2].op \in HeadingOps
    /\ calls[3].op = "table"
    /\ IsGroup(story[Len(story)])
    /\ Range(BufferedIds(calls[1])) \subseteq UngroupedIds(story)
    /\ InOneGroup(Range(BufferedIds(calls[2])))

\* ------------------------------------------------------------------------
\* C18  The stream is append-only: every composer operation (heading,
\* content, spacer, flush) leaves the entries already in the stream
\* unchanged and in place; the stream before an operation is a prefix of
\* the stream after it.
\* ------------------------------------------------------------------------
C18_AppendOnly ==
    [][/\ Len(story') >= Len(story)
       /\ \A k \in 1..Len(story) : story'[k] = story[k]
      ]_vars

\* three calls have each appended to the stream, a group among the entries
C18_Witness ==
    /\ Len(calls) = 3
    /\ calls[1].op = "spacer"
    /\ calls[2].op \in HeadingOps
    /\ calls[3].op \in ContentOps
    /\ Len(story) >= 2
    /\ story[1].kind = "Spacer"
    /\ IsGroup(story[Len(story)])

\* ------------------------------------------------------------------------
\* C19  In the run of the script the stream is handed to the renderer
\* (build_document) once: the step that hands it over is the last of the
\* script, it comes right after the final flush and finds the buffer
\* empty, and once the stream is handed over no operation runs: the
\* stream, the buffer and the call log stay as they are.
\* ------------------------------------------------------------------------
C19_RenderedOnce ==
    [][/\ (built' /\ ~built) =>
            /\ calls # <<>>
            /\ LastCall.op = "finalize"
            /\ _pending_heading = <<>>
            /\ pc = Len(Script)
            /\ UNCHANGED <<story, _pending_heading, calls>>
       /\ built => UNCHANGED vars
      ]_vars

\* the renderer has received the stream of the whole script, every
\* flowable the script constructed in it
C19_Witness ==
    /\ built
    /\ pc = Len(Script) + 1
    /\ LastCall.op = "finalize"
    /\ _pending_heading = <<>>
    /\ Cardinality({b.id : b \in BlocksOf(story)}) = nextId - 1

\* ------------------------------------------------------------------------
\* Heading calls that derive the same anchor
\* ------------------------------------------------------------------------
\* the pairs of heading calls, the earlier first, whose texts derive the
\* same anchor
Collisions ==
    {p \in (1..Len(calls)) \X (1..Len(calls)) :
        /\ p[1] < p[2]
        /\ calls[p[1]].op \in HeadingOps
        /\ calls[p[2]].op \in HeadingOps
        /\ _make_anchor(calls[p[1]].text) = _make_anchor(calls[p[2]].text)}

\* the anchored titles among blocks that the call constructed
TitlesOf(call, blocks) == {b \in blocks : IsAnchored(b) /\ b.id \in Range(call.ids)}

\* ------------------------------------------------------------------------
\* C20  Anchor collisions are not detected: when a heading call derives
\* the anchor that an earlier heading call derived ("2.1 A" and "2.1. B",
\* or the same unnumbered heading twice), the call is carried out like any
\* other; the title of the earlier heading is in the stream, the title of
\* the later one is in the buffer and, from the next call on, in the
\* stream, and both carry the same anchor.
\* ------------------------------------------------------------------------
C20_CollisionsUndetected ==
    \A p \in Collisions :
        LET inStream == BlocksOf(story)
            first == TitlesOf(calls[p[1]], inStream)
            second == TitlesOf(calls[p[2]], inStream \cup Range(_pending_heading))
        IN  /\ Cardinality(first) = 1
            /\ Cardinality(second) = 1
            /\ \A a \in first : \A b \in second :
                  /\ a.id # b.id
                  /\ NameOf(a) = NameOf(b)
                  /\ NameOf(b) = _make_anchor(calls[p[2]].text)
            /\ p[2] < Len(calls) => second \subseteq inStream

\* "2.1 A" and "2.1. B" have both been issued and both titles are in the
\* stream under the anchor sec_2_1
C20_Witness ==
    /\ Len(calls) = 3
    /\ calls[1].op = "sub_heading"
    /\ calls[1].text = <<"2", ".", "1", " ", "A">>
    /\ calls[2].op = "sub_heading"
    /\ calls[2].text = <<"2", ".", "1", ".", " ", "B">>
    /\ calls[3].op = "body"
    /\ Cardinality({b \in BlocksOf(story) : IsAnchored(b) /\ NameOf(b) = <<"s", "e", "c", "_", "2", "_", "1">>}) = 2

\* ------------------------------------------------------------------------
\* C21  _make_anchor ignores inline markup: for every text its result is
\* its result on the same text with all markup tags removed, and a heading
\* whose title is wrapped in tags gets the anchor of the plain heading.
\* ------------------------------------------------------------------------
TagFree(s) == \A k \in 1..Len(s) : s[k] \notin {"<", ">"}

C21_MarkupIgnored ==
    bodyAnchor # NoAnchor =>
        /\ bodyAnchor = _make_anchor(StripTags(text))
        /\ (text = BoldHeading(num, title) /\ TagFree(title))
              => bodyAnchor = _make_anchor(num \o title)

\* the anchor of a numbered heading whose one-digit title is set in bold:
\* the digit joins the number once the tags are gone
C21_Witness ==
    /\ num = <<"2", ".">>
    /\ title = <<"1">>
    /\ text = BoldHeading(num, title)
    /\ StripTags(text) = <<"2", ".", "1">>
    /\ bodyAnchor = <<"s", "e", "c", "_", "2", "_", "1">>

\* ------------------------------------------------------------------------
\* Vocabulary of the calls of _make_anchor on its own
\* ------------------------------------------------------------------------
\* the step is a call of _make_anchor that no composer operation makes
MakeAnchorCalled == calls' = calls /\ <<text', bodyAnchor'>> # <<text, bodyAnchor>>

\* the anchored titles of the stream and of the buffer
AllTitles == {b \in BlocksOf(story) \cup Range(_pending_heading) : IsAnchored(b)}

\* the anchors of the three heading texts, written out
KnownAnchor(t) ==
    CASE t = <<"2", ".", "1", " ", "A">> -> <<"s", "e", "c", "_", "2", "_", "1">>
      [] t = <<"2", ".", "1", ".", " ", "B">> -> <<"s", "e", "c", "_", "2", "_", "1">>
      [] t = <<"A", "b", " ", "c">> -> <<"s", "e", "c", "_", "a", "b", "_", "c">>

\* ------------------------------------------------------------------------
\* C22  _make_anchor is pure: the same text yields the same anchor
\* whatever the buffer and the stream contain and however many anchors
\* were derived before (it is the anchor every title of that text already
\* carries), and calling it changes neither the buffer nor the stream.
\* ------------------------------------------------------------------------
C22_Pure ==
    [][MakeAnchorCalled =>
          /\ bodyAnchor' = KnownAnchor(text')
          /\ \A p \in AllTitles : ShownText(p) = text' => NameOf(p) = bodyAnchor'
          /\ UNCHANGED <<story, _pending_heading, nextId>>
      ]_vars

\* the anchor of "2.1. B" derived on its own while one heading of that
\* text is in the stream and another is pending
C22_Witness ==
    /\ text = <<"2", ".", "1", ".", " ", "B">>
    /\ bodyAnchor = <<"s", "e", "c", "_", "2", "_", "1">>
    /\ \E p \in BlocksOf(story) : IsAnchored(p) /\ ShownText(p) = text
    /\ \E p \in Range(_pending_heading) : IsAnchored(p) /\ ShownText(p) = text

\* ------------------------------------------------------------------------
\* Link targets and anchors of the stream
\* ------------------------------------------------------------------------
\* the anchors the rows of the table of contents link to
LinkTargets == {HrefOf(r) : r \in {b \in BlocksOf(story) : IsTocRow(b)}}

\* the anchors the heading paragraphs of the stream carry
StreamAnchors == {NameOf(p) : p \in {b \in BlocksOf(story) : IsAnchored(b)}}

FinalFlushDone == calls # <<>> /\ LastCall.op = "finalize"

\* ------------------------------------------------------------------------
\* C23  No dangling link: after the final flush every anchor that a row of
\* the table of contents links to is carried by a heading paragraph of the
\* stream; sec_1, sec_Appendix_A and sec_Appendix_B are among them.
\* ------------------------------------------------------------------------
C23_NoDanglingLink ==
    FinalFlushDone =>
        LET targets == LinkTargets
            carried == StreamAnchors
        IN  /\ targets \subseteq carried
            /\ {<<"s", "e", "c", "_", "1">>, <<"s", "e", "c", "_", "A", "p", "p", "e", "n", "d", "i", "x", "_", "A">>, <<"s", "e", "c", "_", "A", "p", "p", "e", "n", "d", "i", "x", "_", "B">>} \subseteq targets

\* the final flush is done, every entry has its row and the heading of
\* the last entry is in the stream
C23_Witness ==
    /\ FinalFlushDone
    /\ ~built
    /\ Cardinality(LinkTargets) = Len(toc_entries)
    /\ <<"s", "e", "c", "_", "A", "p", "p", "e", "n", "d", "i", "x", "_", "B">> \in LinkTargets \cap StreamAnchors

\* ------------------------------------------------------------------------
\* C24  In the run of the script the anchors of the heading paragraphs,
\* those in the stream and those still buffered, the hand-written sec_1
\* included, are pairwise distinct.
\* ------------------------------------------------------------------------
C24_DistinctAnchors ==
    LET anchored == {b \in BlocksOf(story) \cup Range(_pending_heading) : IsAnchored(b)}
    IN  Cardinality({NameOf(p) : p \in anchored}) = Cardinality({p.id : p \in anchored})

\* the script has run: the stream holds more anchored headings than the
\* table of contents has entries, the six theorems and sec_1 among them
C24_Witness ==
    /\ built
    /\ Cardinality(StreamAnchors) > Len(toc_entries) + 6
    /\ {<<"s", "e", "c", "_", "1">>, <<"s", "e", "c", "_", "t", "h", "e", "o", "r", "e", "m", "_", "1", "_", "c", "o", "r", "r", "e", "c", "t", "n", "e", "s", "s">>, <<"s", "e", "c", "_", "t", "h", "e", "o", "r", "e", "m", "_", "6", "_", "l", "e", "q", "e", "t", "a", "_", "b", "i", "a", "s">>,
        <<"s", "e", "c", "_", "t", "h", "r", "e", "s", "h", "o", "l", "d", "_", "t", "e", "s", "t", "s", "_", "5", "9", "_", "t", "e", "s", "t", "s">>} \subseteq StreamAnchors

\* ------------------------------------------------------------------------
\* Titles of the rows and of the headings
\* ------------------------------------------------------------------------
\* the title a table of contents row shows: the text of its second link
RowTitle(r) == UpTo(After(After(After(r.text, ">"), ">"), ">"), "<")

\* the title part of a heading text: what follows its numbering token
TitlePart(t) == SubSeq(t, MatchLen(t) + 1, Len(t))

\* <<anchor linked to, title>> of every row
RowsByAnchor == {<<HrefOf(r), RowTitle(r)>> : r \in {b \in BlocksOf(story) : IsTocRow(b)}}

\* <<anchor carried, title part>> of every anchored heading of the stream
HeadingsByAnchor ==
    {<<NameOf(p), TitlePart(ShownText(p))>> : p \in {b \in BlocksOf(story) : IsAnchored(b)}}

\* ------------------------------------------------------------------------
\* C25  Every link of the table of contents lands on the section it
\* names: once the script has run, for every row the heading that carries
\* the anchor the row links to has a text whose title part, after the
\* number, begins with the title the row shows.
\* ------------------------------------------------------------------------
C25_LinkLandsOnNamedSection ==
    built =>
        LET rows == RowsByAnchor
            headings == HeadingsByAnchor
        IN  \A r \in rows : \A h \in headings :
                h[1] = r[1] => StartsWith(h[2], r[2])

\* ------------------------------------------------------------------------
\* Page breaks of the level 1 headings
\* ------------------------------------------------------------------------
StreamIds == Range(IdsOf(Flatten(story)))

\* the entry e holds the block of identity id, by itself or as a member
Holds(e, id) == IF IsGroup(e) THEN id \in Range(IdsOf(e.items)) ELSE e.id = id

\* the page break of the section_heading call is one ungrouped stream
\* entry; the entry after it is the one that holds the call's title, and
\* while the title is buffered the page break is the last entry
BreakBeforeTitle(call) ==
    LET break == DecorationIds(call)[1]
        heading == DecorationIds(call)[2]
        at == {i \in 1..Len(story) : Holds(story[i], break)}
    IN  /\ Cardinality(at) = 1
        /\ \A i \in at :
              /\ story[i].kind = "PageBreak"
              /\ IF heading \in StreamIds
                 THEN i < Len(story) /\ Holds(story[i + 1], heading)
                 ELSE i = Len(story) /\ heading \in Range(IdsOf(_pending_heading))

BreaksBeforeTitles ==
    \A k \in 1..Len(calls) :
        calls[k].op = "section_heading" => BreakBeforeTitle(calls[k])

\* ------------------------------------------------------------------------
\* C26  section_heading appends one PageBreak directly to the stream on
\* every call, after the unbonded flush of a pending heading and before
\* its title is buffered; the page break of every level 1 heading is an
\* ungrouped stream entry that immediately precedes the entry holding the
\* heading's title, however the heading is flushed later.
\* ------------------------------------------------------------------------
C26_PageBreakDirect ==
    [][/\ Called({"section_heading"}) =>
            /\ SubSeq(story', 1, Len(story) + Len(_pending_heading)) = story \o _pending_heading
            /\ KindsOf(SubSeq(story', Len(story) + Len(_pending_heading) + 1, Len(story')))
                  = <<"PageBreak">>
            /\ \A b \in Range(_pending_heading') : b.kind # "PageBreak"
       /\ BreaksBeforeTitles'
      ]_vars

\* two level 1 headings and a content block: the first heading was flushed
\* unbonded, the second bonded, each behind its page break
C26_Witness ==
    /\ Len(calls) = 3
    /\ calls[1].op = "section_heading"
    /\ calls[2].op = "section_heading"
    /\ calls[3].op \in ContentOps
    /\ KindsOf(story) = <<"PageBreak", "Paragraph", "AccentBar", "Spacer", "PageBreak", "KeepTogether">>

\* ------------------------------------------------------------------------
\* C27  Group shape: every keep-together group of the stream consists of
\* the buffered decorations of one heading call, one anchored title among
\* them, followed by the one block of the content call made right after
\* that heading call; no group is a member of a group and no group holds a
\* block of a spacer call.  A content block is a member of a group exactly
\* when its call came right after a heading call; otherwise it is a stream
\* entry of its own.
\* ------------------------------------------------------------------------
C27_GroupShape ==
    /\ \A g \in GroupsOf(story) :
          LET n == Len(g.items)
          IN  /\ n >= 2
              /\ \A k \in 1..n : ~IsGroup(g.items[k])
              /\ Cardinality({k \in 1..n : IsAnchored(g.items[k])}) = 1
              /\ Range(IdsOf(g.items)) \cap SpacerCallIds = {}
              /\ \E j \in 2..Len(calls) :
                    /\ calls[j - 1].op \in HeadingOps
                    /\ calls[j].op \in ContentOps
                    /\ IdsOf(SubSeq(g.items, 1, n - 1)) = BufferedIds(calls[j - 1])
                    /\ <<g.items[n].id>> = calls[j].ids
    /\ \A j \in 1..Len(calls) :
          calls[j].op \in ContentOps =>
              IF j > 1 /\ calls[j - 1].op \in HeadingOps
              THEN InOneGroup(Range(calls[j].ids))
              ELSE Range(calls[j].ids) \subseteq UngroupedIds(story)

\* a heading and two content blocks: the first is grouped with the
\* heading, the second is an entry of its own
C27_Witness ==
    /\ Len(calls) = 3
    /\ calls[1].op = "sub_heading"
    /\ calls[2].op = "code"
    /\ calls[3].op = "body"
    /\ KindsOf(story) = <<"KeepTogether", "Paragraph">>
    /\ KindsOf(story[1].items) = <<"Spacer", "Paragraph", "Spacer", "CodeBlock">>

\* ------------------------------------------------------------------------
\* C28  Order preservation: in every state the flattened stream followed
\* by the buffer holds the blocks in the order in which the calls that
\* constructed them were made, the blocks of one call in the order of
\* their construction.
\* ------------------------------------------------------------------------
RECURSIVE IdsInCallOrder(_)
IdsInCallOrder(k) == IF k = 0 THEN <<>> ELSE IdsInCallOrder(k - 1) \o calls[k].ids

C28_OrderPreserved ==
    IdsOf(Flatten(story) \o _pending_heading) = IdsInCallOrder(Len(calls))

\* a content block, a heading flushed by a spacer: the heading's blocks
\* lie between the content block and the spacer
C28_Witness ==
    /\ Len(calls) = 3
    /\ calls[1].op \in ContentOps
    /\ calls[2].op = "sub_sub_heading"
    /\ calls[3].op = "spacer"
    /\ IdsOf(story) = calls[1].ids \o calls[2].ids \o calls[3].ids
    /\ _pending_heading = <<>>

\* ------------------------------------------------------------------------
\* C29  At every point where the script appends to the stream without
\* going through the composer (cover page, table of contents, the
\* hand-built heading of section 1, the severity badges of section 16) the
\* buffer is empty: the appended block becomes the last stream entry and
\* every block constructed before it is already in the stream.
\* ------------------------------------------------------------------------
C29_DirectAppendsFindBufferEmpty ==
    [][Called({"story.append"}) =>
          /\ _pending_heading = <<>>
          /\ _pending_heading' = <<>>
          /\ Len(story') = Len(story) + 1
          /\ <<story'[Len(story')].id>> = calls'[Len(calls')].ids
          /\ Cardinality({b.id : b \in BlocksOf(story)}) = nextId - 1
      ]_vars

\* the severity badges have just been appended, after the headings of
\* sections 2 to 16 were issued
C29_Witness ==
    /\ calls # <<>>
    /\ LastCall.op = "story.append"
    /\ story[Len(story)].kind = "SeverityBadges"
    /\ \E k \in 1..Len(calls) : calls[k].op = "section_heading"
    /\ _pending_heading = <<>>

\* ------------------------------------------------------------------------
\* C30  Every heading issued gets into the stream: the call made right
\* after a heading call (heading, content, spacer or finalize) moves the
\* buffered decorations to the stream, so every heading call but the last
\* call has all its decorations in the stream, and after a finalize call
\* nothing is buffered and no decoration of any heading is missing.
\* ------------------------------------------------------------------------
C30_HeadingsReachStream ==
    LET inStream == StreamIds
        buffered == Range(IdsOf(_pending_heading))
    IN  /\ \A k \in 1..Len(calls) :
              calls[k].op \in HeadingOps =>
                  IF k < Len(calls)
                  THEN /\ Range(DecorationIds(calls[k])) \subseteq inStream
                       /\ Range(DecorationIds(calls[k])) \cap buffered = {}
                  ELSE /\ Range(BufferedIds(calls[k])) = buffered
                       /\ buffered \cap inStream = {}
        /\ (calls # <<>> /\ LastCall.op = "finalize") => buffered = {}

\* a level 1 heading, a level 2 heading and finalize: all seven decorations
\* are stream entries
C30_Witness ==
    /\ Len(calls) = 3
    /\ calls[1].op = "section_heading"
    /\ calls[2].op = "sub_heading"
    /\ calls[3].op = "finalize"
    /\ Len(story) = Len(calls[1].ids) + Len(calls[2].ids)
    /\ _pending_heading = <<>>
====
